---- MODULE Spec2Model ----
(***************************************************************************)
(* LangGraphCustomerSupportAgent (src/src/langgraph_agent.py) with its     *)
(* MCPManager / MCPClient (src/src/mcp_client.py) and the data model of    *)
(* src/src/models.py: one call of process_ticket, the compiled graph of    *)
(* the 11 stages and its two conditional edges, the per-stage try/except,  *)
(* and the teardown of the provider clients.                               *)
(*                                                                         *)
(* Optional[T] values are sequences of length <= 1: None is <<>>,          *)
(* a present value x is <<x>>.  Dicts are functions over string keys.      *)
(* What a provider or the LLM answers is the environment's choice: every   *)
(* stage action draws it with \E from the sets defined below.              *)
(***************************************************************************)
EXTENDS Integers, Sequences, FiniteSets, TLC

VARIABLES
    pc,          \* position inside process_ticket
    input,       \* the argument input_payload
    node,        \* the graph node workflow.ainvoke runs next
    state,       \* the CustomerSupportState threaded through the nodes
    output,      \* the OutputPayload process_ticket returns (Optional)
    raised,      \* the exception process_ticket lets reach its caller (Optional)
    closed,      \* per MCP client: how often client.aclose() has been awaited
    stage_logs   \* the local list stage_logs of SimpleLangGraphAgent.process_ticket

vars == <<pc, input, node, state, output, raised, closed, stage_logs>>

-----------------------------------------------------------------------------
(* Bounds of the model *)

\* at most this many remote ability calls of one run end in an ERROR outcome
MaxProviderErrors == 2
\* best_score values offered around the threshold: 90 - ScoreRadius .. 90 + ScoreRadius
ScoreRadius == 1

-----------------------------------------------------------------------------
(* Optional values and dict helpers *)

None == <<>>
Some(x) == <<x>>

EmptyDict == <<>>

\* dict.get(key, default)
Get(d, k, default) == IF k \in DOMAIN d THEN d[k] ELSE default

\* dict.update(other)
Update(d, other) ==
    [k \in (DOMAIN d) \cup (DOMAIN other) |->
        IF k \in DOMAIN other THEN other[k] ELSE d[k]]

-----------------------------------------------------------------------------
(* models.py *)

Priority == {"low", "medium", "high", "critical"}

StatusPENDING   == "pending"
StatusRESOLVED  == "resolved"
StatusESCALATED == "escalated"
StatusCLOSED    == "closed"
Status == {StatusPENDING, StatusRESOLVED, StatusESCALATED, StatusCLOSED}

StageMode == {"entry_only", "deterministic", "non_deterministic",
              "human_interaction", "output_only"}

\* The arguments a caller may hand to process_ticket: an InputPayload, or a
\* value that pydantic rejects when CustomerSupportState validates it.
InputPayload ==
    {[customer_name |-> "John Smith", email |-> "john.smith@example.com",
      query |-> "login", priority |-> "high", ticket_id |-> "T-1",
      well_formed |-> wf] : wf \in BOOLEAN}

\* Timestamps are readings of a logical clock: every datetime.now() yields
\* the reading after the previous one.
AbilityExecution(ability_name, server_used, execution_time, status, result, error) ==
    [ability_name |-> ability_name, server_used |-> server_used,
     execution_time |-> execution_time,
     status |-> status, result |-> result, error |-> error]

StageLog(stage_name, stage_id, mode, start_time) ==
    [stage_name |-> stage_name, stage_id |-> stage_id, mode |-> mode,
     abilities_executed |-> <<>>, start_time |-> start_time, end_time |-> None,
     success |-> TRUE, error |-> None]

CustomerSupportState(input_payload) ==
    [input_payload |-> input_payload,
     current_stage |-> 1,
     processing_complete |-> FALSE,
     extracted_entities |-> EmptyDict,
     normalized_fields |-> EmptyDict,
     enriched_data |-> EmptyDict,
     knowledge_base_results |-> <<>>,
     solution_scores |-> EmptyDict,
     escalation_needed |-> FALSE,
     escalation_reason |-> None,
     confidence_score |-> 0,
     clarification_requested |-> FALSE,
     clarification_question |-> None,
     human_response |-> None,
     generated_response |-> None,
     api_calls_executed |-> <<>>,
     notifications_sent |-> <<>>,
     ticket_status |-> StatusPENDING,
     stage_logs |-> <<>>,
     clock |-> 0]          \* what the next datetime.now() of the run yields

OutputPayload(ticket_id, final_state) ==
    [ticket_id |-> ticket_id,
     status |-> final_state.ticket_status,
     response |-> final_state.generated_response,
     confidence_score |-> final_state.confidence_score,
     escalation_reason |-> final_state.escalation_reason,
     stage_logs |-> final_state.stage_logs,
     final_payload |-> final_state,
     agent_name |-> "Langie",
     agent_version |-> "1.0.0"]

-----------------------------------------------------------------------------
(* mcp_client.py *)

\* self.clients of MCPManager.__init__
Clients == {"ATLAS", "COMMON"}

NotFound == [status |-> "ability_not_found", result |-> None]

CannedSolutions ==
    << [solution |-> "Send password reset email", score |-> 85],
       [solution |-> "Unlock account manually", score |-> 92],
       [solution |-> "Escalate to security team", score |-> 40] >>

CannedBestScore == 92
CannedLowScore == 40

\* MCPClient._atlas_ability_response: the canned answers of the ATLAS server
atlas_ability_response(ability_name, payload) ==
    LET responses ==
          [extract_entities |->
              [entities |-> [product |-> "User Account",
                             issue_type |-> "Authentication"]],
           enrich_records |->
              [sla_info |-> "2 hours", historical_tickets |-> <<"T-001", "T-002">>],
           clarify_question |->
              [question |-> "Have you tried using the 'Forgot Password' feature?"],
           extract_answer |->
              [answer |-> "Yes, I tried the forgot password feature"],
           knowledge_base_search |->
              [results |-> <<"Email delivery issues", "Password reset troubleshooting">>],
           escalation_decision |->
              [escalate |-> FALSE, reason |-> "Standard troubleshooting available"],
           update_ticket |-> [ticket_updated |-> TRUE, new_status |-> "In Progress"],
           close_ticket |-> [ticket_closed |-> TRUE, closure_reason |-> "Resolved"],
           execute_api_calls |->
              [api_calls |-> <<"reset_password_email", "unlock_account">>],
           trigger_notifications |->
              [notifications |-> << <<"email", Get(payload, "email", "")>>,
                                    <<"sms", Get(payload, "phone", "")>> >>]]
    IN  Get(responses, ability_name, NotFound)

\* MCPClient._common_ability_response: the canned answers of the COMMON server
common_ability_response(ability_name, payload) ==
    LET responses ==
          [parse_request_text |->
              [structured_data |-> [issue_category |-> "Authentication",
                                    sentiment |-> "frustrated"]],
           normalize_fields |->
              [normalized |-> [email |-> <<"lower_strip", Get(payload, "email", "")>>,
                               priority |-> <<"upper", Get(payload, "priority", "")>>]],
           add_flags_calculations |->
              [flags |-> [high_priority |-> TRUE, sla_risk |-> FALSE]],
           solution_evaluation |->
              [solutions |-> CannedSolutions, best_score |-> CannedBestScore],
           response_generation |->
              [response |-> "Dear " \o Get(payload, "customer_name", "Customer")
                              \o ", Ticket ID: " \o Get(payload, "ticket_id", "Unknown")]]
    IN  Get(responses, ability_name, NotFound)

\* a server call that answers from the ATLAS table whatever the server is
simulate_server_call_AtlasTable(server_name, ability_name, payload) ==
    atlas_ability_response(ability_name, payload)

\* MCPClient._simulate_server_call
simulate_server_call(server_name, ability_name, payload) ==
    IF server_name = "ATLAS" THEN atlas_ability_response(ability_name, payload)
    ELSE IF server_name = "COMMON" THEN common_ability_response(ability_name, payload)
    ELSE [status |-> "unknown_server", result |-> None]

\* The threshold of the escalation rule (stage_07_decide)
EscalationThreshold == 90

\* best_score values a solution_evaluation provider may report
Scores ==
    {CannedLowScore, CannedBestScore}
      \cup ((EscalationThreshold - ScoreRadius) .. (EscalationThreshold + ScoreRadius))

\* What the server behind a client may answer to one ability call.  The
\* simulated call answers the canned response; the provider contract is an
\* arbitrary request/response server, so the two abilities the decision is
\* computed from range over the answers a server may give.
ServerResponses(server_name, ability_name, payload) ==
    IF server_name = "COMMON" /\ ability_name = "solution_evaluation" THEN
        {[solutions |-> sols, best_score |-> b] :
              sols \in {CannedSolutions, <<>>}, b \in Scores}
          \cup {[solutions |-> CannedSolutions]}
    ELSE IF server_name = "ATLAS" /\ ability_name = "escalation_decision" THEN
        {[escalate |-> e, reason |-> "Standard troubleshooting available"] :
              e \in BOOLEAN}
          \cup {EmptyDict}
    ELSE {simulate_server_call(server_name, ability_name, payload)}

\* str(e) of the exceptions a server call may raise
ServerErrors == {"Connection refused"}

\* The outcome of the awaited server call inside MCPClient.execute_ability:
\* it returns a response or raises.
ServerOutcomes(server_name, ability_name, payload) ==
    {[raises |-> FALSE, response |-> r, text |-> ""] :
          r \in ServerResponses(server_name, ability_name, payload)}
      \cup {[raises |-> TRUE, response |-> EmptyDict, text |-> t] : t \in ServerErrors}

\* an except clause that drops the exception text
MCPClient_execute_ability_NoText(server_name, ability_name, outcome, now) ==
    IF outcome.raises
    THEN AbilityExecution(ability_name, server_name, now, "error", None, Some(""))
    ELSE AbilityExecution(ability_name, server_name, now, "success",
                          Some(outcome.response), None)

\* MCPClient.execute_ability: start_time = datetime.now(), try the server
\* call, except Exception -> "error"
MCPClient_execute_ability(server_name, ability_name, outcome, now) ==
    IF outcome.raises
    THEN AbilityExecution(ability_name, server_name, now, "error", None,
                          Some(outcome.text))
    ELSE AbilityExecution(ability_name, server_name, now, "success",
                          Some(outcome.response), None)

\* MCPManager.execute_ability
MCPManager_execute_ability(server_name, ability_name, outcome, now) ==
    IF server_name \notin Clients
    THEN AbilityExecution(ability_name, server_name, now, "error", None,
                          Some(<<"Unknown server: ", server_name>>))
    ELSE MCPClient_execute_ability(server_name, ability_name, outcome, now)

\* a close() that stops after the first client
MCPManager_close_FirstOnly(c) ==
    [k \in Clients |-> IF k = "ATLAS" THEN c[k] + 1 ELSE c[k]]

\* MCPManager.close: await client.client.aclose() for every client
MCPManager_close(c) == [k \in Clients |-> c[k] + 1]

-----------------------------------------------------------------------------
(* The advice collaborator: self.llm.ainvoke(messages) *)

\* llm_response.content as a sequence of characters
LLMContents ==
    { <<"Y", "E", "S">>, <<"y", "e", "s">>, <<"N", "O">>,
      <<"n", "o", " ", "y", "e", "t">>, <<"e", "y", "e", "s">> }

\* str(e) of the exceptions the call may raise (str(TimeoutError()) is "")
LLMErrors == {"", "Request timed out."}

LLMOutcomes ==
    {[raises |-> FALSE, content |-> c, text |-> ""] : c \in LLMContents}
      \cup {[raises |-> TRUE, content |-> <<>>, text |-> t] : t \in LLMErrors}

\* str.upper() on the characters the contents are written in
Upper(content) ==
    LET up == [y |-> "Y", e |-> "E", s |-> "S", n |-> "N", o |-> "O", t |-> "T"]
    IN  [i \in DOMAIN content |-> Get(up, content[i], content[i])]

\* sub in text
Contains(text, sub) ==
    \E i \in 0 .. (Len(text) - Len(sub)) : SubSeq(text, i + 1, i + Len(sub)) = sub

-----------------------------------------------------------------------------
(* langgraph_agent.py: stage logging and ability execution *)

\* the outcome of a try block: the state it left and the exception it raised
Ok(s) == [state |-> s, exc |-> None]
Raise(s, text) == [state |-> s, exc |-> Some(text)]

AttributeErrorText == "'NoneType' object has no attribute 'get'"
TypeErrorText == "'NoneType' object is not iterable"

\* the StageLog object a stage holds is the last element of state.stage_logs
LastLog(s) == s.stage_logs[Len(s.stage_logs)]

_log_stage_start(s, stage_name, stage_id, mode) ==
    [s EXCEPT !.stage_logs = Append(@, StageLog(stage_name, stage_id, mode, s.clock)),
              !.current_stage = stage_id,
              !.clock = @ + 1]

\* a completion that stamps end_time only on success
_log_stage_complete_SuccessOnly(s, success, error) ==
    [s EXCEPT !.stage_logs[Len(s.stage_logs)] =
        [@ EXCEPT !.end_time = IF success THEN Some(s.clock) ELSE @,
                  !.success = success,
                  !.error = IF error # None /\ error # Some("") THEN error ELSE @],
              !.clock = @ + 1]

\* error is Optional[str]; "if error:" is false for None and for ""
_log_stage_complete(s, success, error) ==
    [s EXCEPT !.stage_logs[Len(s.stage_logs)] =
        [@ EXCEPT !.end_time = Some(s.clock),
                  !.success = success,
                  !.error = IF error # None /\ error # Some("") THEN error ELSE @],
              !.clock = @ + 1]

\* a stage function whose try block has no except clause
CloseStage_NoExcept(r) ==
    IF r.exc = None
    THEN [state |-> _log_stage_complete(r.state, TRUE, None),
          caught |-> None, escaped |-> None]
    ELSE [state |-> r.state, caught |-> None, escaped |-> r.exc]

\* The tail every stage shares: the last statement of the try block on
\* success, the "except Exception" branch on an exception.  A stage run
\* yields the state it returns, the exception its except branch caught, and
\* the exception that escaped the stage function (none: every stage catches).
CloseStage(r) ==
    IF r.exc = None
    THEN [state |-> _log_stage_complete(r.state, TRUE, None),
          caught |-> None, escaped |-> None]
    ELSE [state |-> _log_stage_complete(r.state, FALSE, r.exc),
          caught |-> r.exc, escaped |-> None]

_execute_internal_ability(ability_name, s) ==
    IF ability_name = "accept_payload"
    THEN [status |-> "payload_accepted", ticket_id |-> s.input_payload.ticket_id]
    ELSE IF ability_name = "store_answer" THEN [status |-> "answer_stored"]
    ELSE IF ability_name = "store_data" THEN [status |-> "data_stored"]
    ELSE IF ability_name = "update_payload" THEN [status |-> "payload_updated"]
    ELSE IF ability_name = "output_payload"
    THEN [status |-> "payload_output", final_payload |-> s]
    ELSE [status |-> "unknown_internal_ability"]

Ability(name, server) == [name |-> name, server |-> server]

\* a payload that names the customer by the product UNDERSTAND extracted
PayloadDict_FromState(s) ==
    [k \in (DOMAIN s.input_payload) \ {"well_formed"} |->
        IF k = "customer_name" /\ "product" \in DOMAIN s.extracted_entities
        THEN s.extracted_entities["product"]
        ELSE s.input_payload[k]]

\* state.input_payload.dict()
PayloadDict(s) ==
    [k \in (DOMAIN s.input_payload) \ {"well_formed"} |-> s.input_payload[k]]

\* What the servers answer to the calls of one stage: one outcome per
\* declared ability (the entry of an internal ability is not used).
AbilityEnv(abilities, payload) ==
    LET at(i) == IF abilities[i].server = "internal"
                 THEN {[raises |-> FALSE, response |-> EmptyDict, text |-> ""]}
                 ELSE ServerOutcomes(abilities[i].server, abilities[i].name, payload)
    IN  {env \in [DOMAIN abilities -> UNION {at(i) : i \in DOMAIN abilities}] :
            \A i \in DOMAIN abilities : env[i] \in at(i)}

\* a loop that visits the abilities from the last to the first
LoopOrder_Reversed(abilities) ==
    [i \in DOMAIN abilities |-> Len(abilities) + 1 - i]

\* a loop that goes through the abilities a second time
LoopOrder_Twice(abilities) ==
    [i \in 1 .. (Len(abilities) + Len(abilities)) |->
        IF i <= Len(abilities) THEN i ELSE i - Len(abilities)]

\* "for ability_config in abilities": the indices in the order the loop
\* visits them
LoopOrder(abilities) == [i \in DOMAIN abilities |-> i]

\* an _execute_abilities whose loop ends at the first ERROR execution
_execute_abilities_StopOnError(s, abilities, env) ==
    LET all == SelectSeq(LoopOrder(abilities),
                         LAMBDA i : abilities[i].server # "internal")
        execution(i, now) ==
            MCPManager_execute_ability(abilities[i].server, abilities[i].name,
                                       env[i], now)
        failed == {j \in DOMAIN all : execution(all[j], s.clock).status = "error"}
        stop == IF failed = {} THEN Len(all)
                ELSE CHOOSE j \in failed : \A k \in failed : j <= k
        remote == SubSeq(all, 1, stop)
        executions == [j \in DOMAIN remote |-> execution(remote[j], s.clock + j - 1)]
        names == {abilities[i].name : i \in DOMAIN abilities}
        last(nm) == CHOOSE i \in DOMAIN abilities :
                        /\ abilities[i].name = nm
                        /\ \A k \in DOMAIN abilities : abilities[k].name = nm => k <= i
        reached(nm) == \E j \in DOMAIN remote : remote[j] = last(nm)
        results == [nm \in names |->
                      IF abilities[last(nm)].server = "internal"
                      THEN Some(_execute_internal_ability(nm, s))
                      ELSE IF reached(nm) THEN execution(last(nm), s.clock).result
                      ELSE None]
    IN  [state |-> [s EXCEPT !.stage_logs[Len(s.stage_logs)].abilities_executed =
                                  @ \o executions,
                             !.clock = @ + Len(remote)],
         results |-> results]

\* _execute_abilities: the abilities one after the other in declared order,
\* each awaited before the next starts; a remote ability appends its
\* AbilityExecution to the stage log and yields execution.result (None
\* after an error), an internal one yields its dict.
_execute_abilities(s, abilities, env) ==
    LET remote == SelectSeq(LoopOrder(abilities),
                            LAMBDA i : abilities[i].server # "internal")
        \* the j-th remote call reads the clock when it starts
        execution(i, now) ==
            MCPManager_execute_ability(abilities[i].server, abilities[i].name,
                                       env[i], now)
        executions == [j \in DOMAIN remote |-> execution(remote[j], s.clock + j - 1)]
        names == {abilities[i].name : i \in DOMAIN abilities}
        last(nm) == CHOOSE i \in DOMAIN abilities :
                        /\ abilities[i].name = nm
                        /\ \A k \in DOMAIN abilities : abilities[k].name = nm => k <= i
        results == [nm \in names |->
                      IF abilities[last(nm)].server = "internal"
                      THEN Some(_execute_internal_ability(nm, s))
                      ELSE execution(last(nm), s.clock).result]
    IN  [state |-> [s EXCEPT !.stage_logs[Len(s.stage_logs)].abilities_executed =
                                  @ \o executions,
                             !.clock = @ + Len(remote)],
         results |-> results]

-----------------------------------------------------------------------------
(* langgraph_agent.py: the 11 stages.  stage_NN(s, ...) is the whole stage  *)
(* function: _log_stage_start, the try block, and the closing of the log.   *)

abilities_01 == << Ability("accept_payload", "internal") >>
abilities_02 == << Ability("parse_request_text", "COMMON"),
                   Ability("extract_entities", "ATLAS") >>
abilities_03 == << Ability("normalize_fields", "COMMON"),
                   Ability("enrich_records", "ATLAS"),
                   Ability("add_flags_calculations", "COMMON") >>
abilities_04 == << Ability("clarify_question", "ATLAS") >>
abilities_05 == << Ability("extract_answer", "ATLAS"),
                   Ability("store_answer", "internal") >>
abilities_06 == << Ability("knowledge_base_search", "ATLAS"),
                   Ability("store_data", "internal") >>
abilities_07 == << Ability("solution_evaluation", "COMMON"),
                   Ability("escalation_decision", "ATLAS"),
                   Ability("update_payload", "internal") >>
abilities_08 == << Ability("update_ticket", "ATLAS"),
                   Ability("close_ticket", "ATLAS") >>
abilities_09 == << Ability("response_generation", "COMMON") >>
abilities_10 == << Ability("execute_api_calls", "ATLAS"),
                   Ability("trigger_notifications", "ATLAS") >>
abilities_11 == << Ability("output_payload", "internal") >>

\* Stage 1: INTAKE
stage_01_intake(s, env) ==
    LET s1 == _log_stage_start(s, "INTAKE", 1, "entry_only")
        ea == _execute_abilities(s1, abilities_01, env)
    IN  CloseStage(Ok(ea.state))

\* Stage 2: UNDERSTAND
stage_02_understand(s, env) ==
    LET s1 == _log_stage_start(s, "UNDERSTAND", 2, "deterministic")
        ea == _execute_abilities(s1, abilities_02, env)
        parsed == ea.results["parse_request_text"]
        extracted == ea.results["extract_entities"]
        s2 == [ea.state EXCEPT !.extracted_entities =
                  Update(@, Get(parsed[1], "structured_data", EmptyDict))]
        s3 == [s2 EXCEPT !.extracted_entities =
                  Update(@, Get(extracted[1], "entities", EmptyDict))]
    IN  CloseStage(
          IF parsed = None THEN Raise(ea.state, AttributeErrorText)
          ELSE IF extracted = None THEN Raise(s2, AttributeErrorText)
          ELSE Ok(s3))

\* a PREPARE that assigns the flags to enriched_data instead of merging them
stage_03_prepare_Assign(s, env) ==
    LET s1 == _log_stage_start(s, "PREPARE", 3, "deterministic")
        ea == _execute_abilities(s1, abilities_03, env)
        normalized == ea.results["normalize_fields"]
        enriched == ea.results["enrich_records"]
        flags == ea.results["add_flags_calculations"]
        s2 == [ea.state EXCEPT !.normalized_fields =
                  Update(@, Get(normalized[1], "normalized", EmptyDict))]
        s3 == [s2 EXCEPT !.enriched_data = Update(@, enriched[1])]
        s4 == [s3 EXCEPT !.enriched_data = Get(flags[1], "flags", EmptyDict)]
    IN  CloseStage(
          IF normalized = None THEN Raise(ea.state, AttributeErrorText)
          ELSE IF enriched = None THEN Raise(s2, TypeErrorText)
          ELSE IF flags = None THEN Raise(s3, AttributeErrorText)
          ELSE Ok(s4))

\* Stage 3: PREPARE
stage_03_prepare(s, env) ==
    LET s1 == _log_stage_start(s, "PREPARE", 3, "deterministic")
        ea == _execute_abilities(s1, abilities_03, env)
        normalized == ea.results["normalize_fields"]
        enriched == ea.results["enrich_records"]
        flags == ea.results["add_flags_calculations"]
        s2 == [ea.state EXCEPT !.normalized_fields =
                  Update(@, Get(normalized[1], "normalized", EmptyDict))]
        s3 == [s2 EXCEPT !.enriched_data = Update(@, enriched[1])]
        s4 == [s3 EXCEPT !.enriched_data =
                  Update(@, Get(flags[1], "flags", EmptyDict))]
    IN  CloseStage(
          IF normalized = None THEN Raise(ea.state, AttributeErrorText)
          ELSE IF enriched = None THEN Raise(s2, TypeErrorText)
          ELSE IF flags = None THEN Raise(s3, AttributeErrorText)
          ELSE Ok(s4))

\* an ASK that looks for "YES" in the text as returned, without upper()
stage_04_ask_CaseSensitive(s, llm, env) ==
    LET s1 == _log_stage_start(s, "ASK", 4, "human_interaction")
        clarification_needed == Contains(llm.content, <<"Y", "E", "S">>)
        ea == _execute_abilities(s1, abilities_04, env)
        question == ea.results["clarify_question"]
        s2 == [ea.state EXCEPT !.clarification_requested = TRUE]
        s3 == [s2 EXCEPT !.clarification_question =
                  Some(Get(question[1], "question", ""))]
    IN  CloseStage(
          IF llm.raises THEN Raise(s1, llm.text)
          ELSE IF ~clarification_needed THEN Ok(s1)
          ELSE IF question = None THEN Raise(s2, AttributeErrorText)
          ELSE Ok(s3))

\* an ASK whose except clause restores the state the stage started from
stage_04_ask_Rollback(s, llm, env) ==
    LET s1 == _log_stage_start(s, "ASK", 4, "human_interaction")
        clarification_needed == Contains(Upper(llm.content), <<"Y", "E", "S">>)
        ea == _execute_abilities(s1, abilities_04, env)
        question == ea.results["clarify_question"]
        s2 == [ea.state EXCEPT !.clarification_requested = TRUE]
        s3 == [s2 EXCEPT !.clarification_question =
                  Some(Get(question[1], "question", ""))]
    IN  CloseStage(
          IF llm.raises THEN Raise(s1, llm.text)
          ELSE IF ~clarification_needed THEN Ok(s1)
          ELSE IF question = None THEN Raise(ea.state, AttributeErrorText)
          ELSE Ok(s3))

\* Stage 4: ASK
stage_04_ask(s, llm, env) ==
    LET s1 == _log_stage_start(s, "ASK", 4, "human_interaction")
        clarification_needed == Contains(Upper(llm.content), <<"Y", "E", "S">>)
        ea == _execute_abilities(s1, abilities_04, env)
        question == ea.results["clarify_question"]
        s2 == [ea.state EXCEPT !.clarification_requested = TRUE]
        s3 == [s2 EXCEPT !.clarification_question =
                  Some(Get(question[1], "question", ""))]
    IN  CloseStage(
          IF llm.raises THEN Raise(s1, llm.text)
          ELSE IF ~clarification_needed THEN Ok(s1)
          ELSE IF question = None THEN Raise(s2, AttributeErrorText)
          ELSE Ok(s3))

\* Stage 5: WAIT
stage_05_wait(s, env) ==
    LET s1 == _log_stage_start(s, "WAIT", 5, "deterministic")
        ea == _execute_abilities(s1, abilities_05, env)
        answer == ea.results["extract_answer"]
        s2 == [ea.state EXCEPT !.human_response = Some(Get(answer[1], "answer", ""))]
    IN  CloseStage(
          IF answer = None THEN Raise(ea.state, AttributeErrorText) ELSE Ok(s2))

\* a RETRIEVE that reads a missing result as an empty dict
stage_06_retrieve_Tolerant(s, env) ==
    LET s1 == _log_stage_start(s, "RETRIEVE", 6, "deterministic")
        ea == _execute_abilities(s1, abilities_06, env)
        found == ea.results["knowledge_base_search"]
        s2 == [ea.state EXCEPT !.knowledge_base_results =
                  IF found = None THEN <<>> ELSE Get(found[1], "results", <<>>)]
    IN  CloseStage(Ok(s2))

\* Stage 6: RETRIEVE
stage_06_retrieve(s, env) ==
    LET s1 == _log_stage_start(s, "RETRIEVE", 6, "deterministic")
        ea == _execute_abilities(s1, abilities_06, env)
        found == ea.results["knowledge_base_search"]
        s2 == [ea.state EXCEPT !.knowledge_base_results = Get(found[1], "results", <<>>)]
    IN  CloseStage(
          IF found = None THEN Raise(ea.state, AttributeErrorText) ELSE Ok(s2))

\* {sol["solution"]: sol["score"] for sol in solutions}
SolutionScores(solutions) ==
    [label \in {solutions[i].solution : i \in DOMAIN solutions} |->
        LET i == CHOOSE i \in DOMAIN solutions :
                   /\ solutions[i].solution = label
                   /\ \A k \in DOMAIN solutions : solutions[k].solution = label => k <= i
        IN  solutions[i].score]

\* a reason text with a percent sign after the score
LowConfidenceReason_Percent(score) == "Low confidence score: " \o ToString(score) \o "%"

\* f"Low confidence score: {state.confidence_score}"
LowConfidenceReason(score) == "Low confidence score: " \o ToString(score)

\* the escalation rule of stage_07_decide
ApplyEscalationRule(s) ==
    IF s.confidence_score < EscalationThreshold
    THEN [s EXCEPT !.escalation_needed = TRUE,
                   !.escalation_reason = Some(LowConfidenceReason(s.confidence_score)),
                   !.ticket_status = StatusESCALATED]
    ELSE s

\* a DECIDE that escalates when the advice text contains NO
stage_07_decide_AdviceDriven(s, llm, env) ==
    LET s1 == _log_stage_start(s, "DECIDE", 7, "non_deterministic")
        ea == _execute_abilities(s1, abilities_07, env)
        evaluation == ea.results["solution_evaluation"]
        decision == ea.results["escalation_decision"]
        s2 == [ea.state EXCEPT
                  !.solution_scores = SolutionScores(Get(evaluation[1], "solutions", <<>>)),
                  !.confidence_score = Get(evaluation[1], "best_score", 0)]
        s3 == [s2 EXCEPT
                  !.escalation_needed =
                      Get(decision[1], "escalate", FALSE)
                        \/ Contains(Upper(llm.content), <<"N", "O">>),
                  !.escalation_reason = Some(Get(decision[1], "reason", ""))]
    IN  CloseStage(
          IF llm.raises THEN Raise(s1, llm.text)
          ELSE IF evaluation = None THEN Raise(ea.state, AttributeErrorText)
          ELSE IF decision = None THEN Raise(s2, AttributeErrorText)
          ELSE Ok(ApplyEscalationRule(s3)))

\* Stage 7: DECIDE
stage_07_decide(s, llm, env) ==
    LET s1 == _log_stage_start(s, "DECIDE", 7, "non_deterministic")
        ea == _execute_abilities(s1, abilities_07, env)
        evaluation == ea.results["solution_evaluation"]
        decision == ea.results["escalation_decision"]
        s2 == [ea.state EXCEPT
                  !.solution_scores = SolutionScores(Get(evaluation[1], "solutions", <<>>)),
                  !.confidence_score = Get(evaluation[1], "best_score", 0)]
        s3 == [s2 EXCEPT
                  !.escalation_needed = Get(decision[1], "escalate", FALSE),
                  !.escalation_reason = Some(Get(decision[1], "reason", ""))]
    IN  CloseStage(
          IF llm.raises THEN Raise(s1, llm.text)
          ELSE IF evaluation = None THEN Raise(ea.state, AttributeErrorText)
          ELSE IF decision = None THEN Raise(s2, AttributeErrorText)
          ELSE Ok(ApplyEscalationRule(s3)))

\* a status rule that compares with > instead of >=
ApplyResolution_Strict(s) ==
    IF s.confidence_score > EscalationThreshold /\ ~s.escalation_needed
    THEN [s EXCEPT !.ticket_status = StatusRESOLVED]
    ELSE s

\* a status rule that resolves without looking at the decision
ApplyResolution_Always(s) == [s EXCEPT !.ticket_status = StatusRESOLVED]

\* the status rule of stage_08_update
ApplyResolution(s) ==
    IF s.confidence_score >= EscalationThreshold /\ ~s.escalation_needed
    THEN [s EXCEPT !.ticket_status = StatusRESOLVED]
    ELSE s

\* an UPDATE that resolves only when update_ticket confirmed the update
stage_08_update_ReadsResult(s, env) ==
    LET s1 == _log_stage_start(s, "UPDATE", 8, "deterministic")
        ea == _execute_abilities(s1, abilities_08, env)
        updated == ea.results["update_ticket"]
    IN  CloseStage(
          IF updated = None THEN Raise(ea.state, AttributeErrorText)
          ELSE Ok(ApplyResolution(ea.state)))

\* Stage 8: UPDATE
stage_08_update(s, env) ==
    LET s1 == _log_stage_start(s, "UPDATE", 8, "deterministic")
        ea == _execute_abilities(s1, abilities_08, env)
    IN  CloseStage(Ok(ApplyResolution(ea.state)))

\* Stage 9: CREATE
stage_09_create(s, env) ==
    LET s1 == _log_stage_start(s, "CREATE", 9, "deterministic")
        ea == _execute_abilities(s1, abilities_09, env)
        generated == ea.results["response_generation"]
        s2 == [ea.state EXCEPT !.generated_response =
                  Some(Get(generated[1], "response", ""))]
    IN  CloseStage(
          IF generated = None THEN Raise(ea.state, AttributeErrorText) ELSE Ok(s2))

\* Stage 10: DO
stage_10_do(s, env) ==
    LET s1 == _log_stage_start(s, "DO", 10, "deterministic")
        ea == _execute_abilities(s1, abilities_10, env)
        calls == ea.results["execute_api_calls"]
        notes == ea.results["trigger_notifications"]
        s2 == [ea.state EXCEPT !.api_calls_executed = Get(calls[1], "api_calls", <<>>)]
        s3 == [s2 EXCEPT !.notifications_sent = Get(notes[1], "notifications", <<>>)]
    IN  CloseStage(
          IF calls = None THEN Raise(ea.state, AttributeErrorText)
          ELSE IF notes = None THEN Raise(s2, AttributeErrorText)
          ELSE Ok(s3))

\* Stage 11: COMPLETE
stage_11_complete(s, env) ==
    LET s1 == _log_stage_start(s, "COMPLETE", 11, "output_only")
        ea == _execute_abilities(s1, abilities_11, env)
    IN  CloseStage(Ok([ea.state EXCEPT !.processing_complete = TRUE]))

\* a wait predicate that looks at the question instead of the request flag
_should_wait_ByQuestion(s) ==
    IF s.clarification_question # None /\ (s.human_response = None \/ s.human_response = Some(""))
    THEN "wait" ELSE "retrieve"

\* an escalation predicate that looks at the confidence instead of the flag
_should_escalate_ByConfidence(s) ==
    IF s.confidence_score < EscalationThreshold THEN "escalate" ELSE "continue"

\* Conditional routing functions
_should_wait(s) ==
    IF s.clarification_requested /\ (s.human_response = None \/ s.human_response = Some(""))
    THEN "wait" ELSE "retrieve"

_should_escalate(s) ==
    IF s.escalation_needed THEN "escalate" ELSE "continue"

END == "END"

\* a graph whose "escalate" edge leads to the complete node instead of END
NextNode_EscalateToComplete(n, s) ==
    CASE n = "intake"     -> "understand"
      [] n = "understand" -> "prepare"
      [] n = "prepare"    -> "ask"
      [] n = "ask"        -> [wait |-> "wait", retrieve |-> "retrieve"][_should_wait(s)]
      [] n = "wait"       -> "retrieve"
      [] n = "retrieve"   -> "decide"
      [] n = "decide"     -> [escalate |-> "complete", continue |-> "update"][_should_escalate(s)]
      [] n = "update"     -> "create"
      [] n = "create"     -> "do"
      [] n = "do"         -> "complete"
      [] n = "complete"   -> END

\* _build_workflow: the edges of the compiled graph
NextNode(n, s) ==
    CASE n = "intake"     -> "understand"
      [] n = "understand" -> "prepare"
      [] n = "prepare"    -> "ask"
      [] n = "ask"        -> [wait |-> "wait", retrieve |-> "retrieve"][_should_wait(s)]
      [] n = "wait"       -> "retrieve"
      [] n = "retrieve"   -> "decide"
      [] n = "decide"     -> [escalate |-> END, continue |-> "update"][_should_escalate(s)]
      [] n = "update"     -> "create"
      [] n = "create"     -> "do"
      [] n = "do"         -> "complete"
      [] n = "complete"   -> END

-----------------------------------------------------------------------------
(* The run: process_ticket and the nodes workflow.ainvoke executes *)

\* the ERROR outcomes recorded so far in the stage logs of s
ProviderErrors(s) ==
    Cardinality({p \in UNION {{<<i, j>> : j \in DOMAIN s.stage_logs[i].abilities_executed} :
                                 i \in DOMAIN s.stage_logs} :
                    s.stage_logs[p[1]].abilities_executed[p[2]].status = "error"})

\* The runs of the stage function of node n from state s, one per answer of
\* the servers and of the advice collaborator.
StageRuns(n, s) ==
    LET payload == PayloadDict(s) IN
    CASE n = "intake" ->
           {stage_01_intake(s, env) : env \in AbilityEnv(abilities_01, payload)}
      [] n = "understand" ->
           {stage_02_understand(s, env) : env \in AbilityEnv(abilities_02, payload)}
      [] n = "prepare" ->
           {stage_03_prepare(s, env) : env \in AbilityEnv(abilities_03, payload)}
      [] n = "ask" ->
           {stage_04_ask(s, llm, env) :
               llm \in LLMOutcomes, env \in AbilityEnv(abilities_04, payload)}
      [] n = "wait" ->
           {stage_05_wait(s, env) : env \in AbilityEnv(abilities_05, payload)}
      [] n = "retrieve" ->
           {stage_06_retrieve(s, env) : env \in AbilityEnv(abilities_06, payload)}
      [] n = "decide" ->
           {stage_07_decide(s, llm, env) :
               llm \in LLMOutcomes, env \in AbilityEnv(abilities_07, payload)}
      [] n = "update" ->
           {stage_08_update(s, env) : env \in AbilityEnv(abilities_08, payload)}
      [] n = "create" ->
           {stage_09_create(s, env) : env \in AbilityEnv(abilities_09, payload)}
      [] n = "do" ->
           {stage_10_do(s, env) : env \in AbilityEnv(abilities_10, payload)}
      [] n = "complete" ->
           {stage_11_complete(s, env) : env \in AbilityEnv(abilities_11, payload)}
      [] OTHER -> {}

\* the runs the error budget of the model admits
AdmittedRuns(n, s) ==
    {r \in StageRuns(n, s) : ProviderErrors(r.state) <= MaxProviderErrors}

\* workflow.ainvoke runs node n: the stage function returns the next state
\* and the graph follows the node's edge; an exception escaping the stage
\* function escapes ainvoke, process_ticket's except clause re-raises it and
\* the finally clause is pending
RunNode(n) ==
    /\ pc = "workflow"
    /\ node = n
    /\ \E r \in AdmittedRuns(n, state) :
          /\ state' = r.state
          /\ IF r.escaped = None
             THEN /\ node' = NextNode(n, r.state)
                  /\ UNCHANGED <<pc, raised>>
             ELSE /\ node' = node
                  /\ pc' = "finally"
                  /\ raised' = r.escaped
    /\ UNCHANGED <<input, output, closed, stage_logs>>

Init ==
    /\ pc = "call"
    /\ input \in InputPayload
    /\ node = "intake"
    /\ state = <<>>
    /\ output = None
    /\ raised = None
    /\ closed = [c \in Clients |-> 0]
    /\ stage_logs = <<>>

\* process_ticket up to the try: the initial state is constructed (pydantic
\* validates input_payload) before the try/finally is entered
Call ==
    /\ pc = "call"
    /\ IF input.well_formed
       THEN /\ state' = CustomerSupportState(input)
            /\ pc' = "workflow"
            /\ raised' = raised
       ELSE /\ state' = state
            /\ pc' = "raised"
            /\ raised' = Some("ValidationError")
    /\ node' = "intake"
    /\ UNCHANGED <<input, output, closed, stage_logs>>

Node_intake ==
    /\ node = "intake"
    /\ RunNode("intake")

Node_understand ==
    /\ node = "understand"
    /\ RunNode("understand")

Node_prepare ==
    /\ node = "prepare"
    /\ RunNode("prepare")

Node_ask ==
    /\ node = "ask"
    /\ RunNode("ask")

Node_wait ==
    /\ node = "wait"
    /\ RunNode("wait")

Node_retrieve ==
    /\ node = "retrieve"
    /\ RunNode("retrieve")

Node_decide ==
    /\ node = "decide"
    /\ RunNode("decide")

Node_update ==
    /\ node = "update"
    /\ RunNode("update")

Node_create ==
    /\ node = "create"
    /\ RunNode("create")

Node_do ==
    /\ node = "do"
    /\ RunNode("do")

Node_complete ==
    /\ node = "complete"
    /\ RunNode("complete")

\* ainvoke has reached END: process_ticket builds the OutputPayload from the
\* final state and executes "return output" (the finally clause is pending)
BuildOutput ==
    /\ pc = "workflow" /\ node = END
    /\ output' = Some(OutputPayload(input.ticket_id, state))
    /\ pc' = "finally"
    /\ UNCHANGED <<input, node, state, raised, closed, stage_logs>>

\* the finally clause: await self.mcp_manager.close(), then the pending
\* return or raise completes
Finally ==
    /\ pc = "finally"
    /\ closed' = MCPManager_close(closed)
    /\ pc' = IF raised = None THEN "returned" ELSE "raised"
    /\ UNCHANGED <<input, node, state, output, raised, stage_logs>>

\* workflow.ainvoke itself raises (an engine error, not a stage error): the
\* except clause logs and re-raises, the finally clause is pending
WorkflowRaises ==
    /\ pc = "workflow"
    /\ raised' = Some("GraphError")
    /\ pc' = "finally"
    /\ UNCHANGED <<input, node, state, output, closed, stage_logs>>

Nodes ==
    \/ Node_intake \/ Node_understand \/ Node_prepare \/ Node_ask
    \/ Node_wait \/ Node_retrieve \/ Node_decide \/ Node_update
    \/ Node_create \/ Node_do \/ Node_complete

Next == Call \/ Nodes \/ BuildOutput \/ Finally

Spec == Init /\ [][Next]_vars

\* the run with engine errors: ainvoke may raise at any point of the workflow
NextEngine == Next \/ WorkflowRaises

SpecEngine == Init /\ [][NextEngine]_vars

Done == pc \in {"returned", "raised"}

-----------------------------------------------------------------------------
(* simple_agent.py: SimpleLangGraphAgent.  process_ticket is one try block  *)
(* with the 11 stages inline; a stage's StageLog is a local object that is  *)
(* appended to the local list stage_logs after the stage has completed.     *)

\* _log_stage: the StageLog of a stage that starts
_log_stage(stage_name, stage_id, mode, now) ==
    StageLog(stage_name, stage_id, mode, now)

\* _complete_stage
_complete_stage(stage_log, success, now) ==
    [stage_log EXCEPT !.end_time = Some(now), !.success = success]

SimpleSolutions ==
    << [solution |-> "Password reset email", score |-> 85],
       [solution |-> "Account unlock", score |-> 92],
       [solution |-> "Escalate to security", score |-> 40] >>

\* _simulate_ability: the canned answers
_simulate_ability(ability_name, server, payload) ==
    LET responses ==
          [parse_request_text |->
              [structured_data |-> [issue_category |-> "Authentication",
                                    sentiment |-> "frustrated"]],
           extract_entities |->
              [entities |-> [product |-> "User Account",
                             issue_type |-> "Authentication"]],
           normalize_fields |->
              [normalized |-> [email |-> <<"lower_strip", Get(payload, "email", "")>>,
                               priority |-> <<"upper", Get(payload, "priority", "")>>]],
           enrich_records |->
              [sla_info |-> "2 hours", historical_tickets |-> <<"T-001">>],
           add_flags_calculations |->
              [flags |-> [high_priority |-> TRUE, sla_risk |-> FALSE]],
           knowledge_base_search |->
              [results |-> <<"Password reset troubleshooting">>],
           solution_evaluation |->
              [solutions |-> SimpleSolutions, best_score |-> CannedBestScore],
           response_generation |->
              [response |-> "Dear " \o Get(payload, "customer_name", "Customer")
                              \o ", Ticket: " \o Get(payload, "ticket_id", "N/A")]]
    IN  Get(responses, ability_name, [status |-> "simulated", ability |-> ability_name])

\* What an awaited _simulate_ability call may yield: the canned answer, for
\* solution_evaluation any best_score a provider may report (or none), or
\* an exception.
SimpleOutcomes(ability_name, server, payload) ==
    LET answers ==
          IF ability_name = "solution_evaluation"
          THEN {[solutions |-> SimpleSolutions, best_score |-> b] : b \in Scores}
                 \cup {[solutions |-> SimpleSolutions]}
          ELSE {_simulate_ability(ability_name, server, payload)}
    IN  {[raises |-> FALSE, response |-> r, text |-> ""] : r \in answers}
          \cup {[raises |-> TRUE, response |-> EmptyDict, text |-> t] : t \in ServerErrors}

\* one outcome per awaited call of a stage
SimpleEnv(abilities, payload) ==
    LET at(i) == SimpleOutcomes(abilities[i].name, abilities[i].server, payload)
    IN  {env \in [DOMAIN abilities -> UNION {at(i) : i \in DOMAIN abilities}] :
            \A i \in DOMAIN abilities : env[i] \in at(i)}

\* the calls a stage of process_ticket awaits, in program order
simple_abilities(n) ==
    CASE n = "understand" -> abilities_02
      [] n = "prepare"    -> abilities_03
      [] n = "retrieve"   -> << Ability("knowledge_base_search", "ATLAS") >>
      [] n = "decide"     -> << Ability("solution_evaluation", "COMMON") >>
      [] n = "create"     -> abilities_09
      [] OTHER            -> << >>

\* One stage of the try block.  The awaited calls come first: when one of
\* them raises, the stage has changed nothing and its StageLog is dropped;
\* otherwise the state is updated, the AbilityExecution records (all with
\* status "success", each stamped when it is constructed) are assigned, and
\* the completed log is handed back for stage_logs.append.
SimpleStage(before, after, stage_log, abilities, env) ==
    IF \E i \in DOMAIN env : env[i].raises
    THEN LET i == CHOOSE i \in DOMAIN env :
                    env[i].raises /\ \A k \in DOMAIN env : env[k].raises => i <= k
         IN  [state |-> [before EXCEPT !.clock = @ + 1],
              log |-> None, exc |-> Some(env[i].text)]
    ELSE LET read == stage_log.start_time + 1 + Len(stage_log.abilities_executed)
             executions ==
               [i \in DOMAIN abilities |->
                   AbilityExecution(abilities[i].name, abilities[i].server,
                                    read + i - 1,
                                    "success", Some(env[i].response), None)]
         IN  [state |-> [after EXCEPT !.clock = read + Len(abilities) + 1],
              log |-> Some(_complete_stage(
                         [stage_log EXCEPT !.abilities_executed = @ \o executions],
                         TRUE, read + Len(abilities))),
              exc |-> None]

\* f"Low confidence score: {state.confidence_score}%"
SimpleLowConfidenceReason(score) ==
    "Low confidence score: " \o ToString(score) \o "%"

\* the stage of process_ticket at position n, from state s
simple_stage(n, s, env) ==
    LET noenv == << >>
        accepted == AbilityExecution("accept_payload", "internal", s.clock + 1,
                        "success",
                        Some([status |-> "payload_accepted",
                              ticket_id |-> s.input_payload.ticket_id]), None)
    IN
    CASE n = "intake" ->
           SimpleStage(s, s,
               [_log_stage("INTAKE", 1, "entry_only", s.clock) EXCEPT
                   !.abilities_executed = <<accepted>>],
               noenv, noenv)
      [] n = "understand" ->
           SimpleStage(s,
               [s EXCEPT !.extracted_entities =
                   Update(Update(@, Get(env[1].response, "structured_data", EmptyDict)),
                          Get(env[2].response, "entities", EmptyDict))],
               _log_stage("UNDERSTAND", 2, "deterministic", s.clock), simple_abilities(n), env)
      [] n = "prepare" ->
           SimpleStage(s,
               [s EXCEPT !.normalized_fields =
                            Update(@, Get(env[1].response, "normalized", EmptyDict)),
                         !.enriched_data =
                            Update(Update(@, env[2].response),
                                   Get(env[3].response, "flags", EmptyDict))],
               _log_stage("PREPARE", 3, "deterministic", s.clock), simple_abilities(n), env)
      [] n = "ask" ->
           SimpleStage(s,
               IF s.input_payload.priority \notin {"high", "critical"}
               THEN [s EXCEPT !.clarification_requested = TRUE,
                              !.clarification_question =
                                 Some("Could you provide more details?")]
               ELSE s,
               _log_stage("ASK", 4, "human_interaction", s.clock), noenv, noenv)
      [] n = "wait" ->
           SimpleStage(s,
               [s EXCEPT !.human_response = Some("The issue started this morning")],
               _log_stage("WAIT", 5, "deterministic", s.clock), noenv, noenv)
      [] n = "retrieve" ->
           SimpleStage(s,
               [s EXCEPT !.knowledge_base_results = Get(env[1].response, "results", <<>>)],
               _log_stage("RETRIEVE", 6, "deterministic", s.clock), simple_abilities(n), env)
      [] n = "decide" ->
           LET score == Get(env[1].response, "best_score", 0)
               s2 == [s EXCEPT
                        !.confidence_score = score,
                        !.solution_scores =
                            SolutionScores(Get(env[1].response, "solutions", <<>>))]
           IN  SimpleStage(s,
                   IF score < EscalationThreshold
                   THEN [s2 EXCEPT !.escalation_needed = TRUE,
                                   !.escalation_reason =
                                       Some(SimpleLowConfidenceReason(score)),
                                   !.ticket_status = StatusESCALATED]
                   ELSE [s2 EXCEPT !.ticket_status = StatusRESOLVED],
                   _log_stage("DECIDE", 7, "non_deterministic", s.clock), simple_abilities(n), env)
      [] n = "update" ->
           SimpleStage(s, s, _log_stage("UPDATE", 8, "deterministic", s.clock), noenv, noenv)
      [] n = "create" ->
           SimpleStage(s,
               [s EXCEPT !.generated_response =
                            Some(Get(env[1].response, "response", ""))],
               _log_stage("CREATE", 9, "deterministic", s.clock), simple_abilities(n), env)
      [] n = "do" ->
           SimpleStage(s,
               [s EXCEPT !.api_calls_executed = <<"unlock_account", "send_reset_email">>,
                         !.notifications_sent = << <<"email", s.input_payload.email>> >>],
               _log_stage("DO", 10, "deterministic", s.clock), noenv, noenv)
      [] n = "complete" ->
           SimpleStage(s, [s EXCEPT !.processing_complete = TRUE],
               _log_stage("COMPLETE", 11, "output_only", s.clock), noenv, noenv)

\* a try block that runs RETRIEVE before WAIT
simple_next_RetrieveFirst(n, s) ==
    CASE n = "intake"     -> "understand"
      [] n = "understand" -> "prepare"
      [] n = "prepare"    -> "ask"
      [] n = "ask"        -> "retrieve"
      [] n = "retrieve"   -> IF s.clarification_requested THEN "wait" ELSE "decide"
      [] n = "wait"       -> "decide"
      [] n = "decide"     -> IF ~s.escalation_needed THEN "update" ELSE "complete"
      [] n = "update"     -> "create"
      [] n = "create"     -> "do"
      [] n = "do"         -> "complete"
      [] n = "complete"   -> END

\* the stage that follows stage n in the try block: "if
\* state.clarification_requested" guards WAIT, "if not
\* state.escalation_needed" guards UPDATE, CREATE and DO
simple_next(n, s) ==
    CASE n = "intake"     -> "understand"
      [] n = "understand" -> "prepare"
      [] n = "prepare"    -> "ask"
      [] n = "ask"        -> IF s.clarification_requested THEN "wait" ELSE "retrieve"
      [] n = "wait"       -> "retrieve"
      [] n = "retrieve"   -> "decide"
      [] n = "decide"     -> IF ~s.escalation_needed THEN "update" ELSE "complete"
      [] n = "update"     -> "create"
      [] n = "create"     -> "do"
      [] n = "do"         -> "complete"
      [] n = "complete"   -> END

\* OutputPayload(...) at the end of process_ticket: stage_logs is the local
\* list, final_payload is state.dict()
SimpleOutputPayload(ticket_id, final_state, logs) ==
    [OutputPayload(ticket_id, final_state) EXCEPT !.stage_logs = logs]

\* the arguments a caller may hand to SimpleLangGraphAgent.process_ticket
SimpleInputs ==
    {[p EXCEPT !.priority = pr] : p \in InputPayload, pr \in Priority}

InitSimple ==
    /\ pc = "simple_call"
    /\ input \in SimpleInputs
    /\ node = "intake"
    /\ state = <<>>
    /\ output = None
    /\ raised = None
    /\ closed = [c \in Clients |-> 0]
    /\ stage_logs = <<>>

\* process_ticket up to the try: the prints read the payload's attributes
\* and the initial state is constructed; both are outside the try block
SimpleCall ==
    /\ pc = "simple_call"
    /\ IF input.well_formed
       THEN /\ state' = CustomerSupportState(input)
            /\ pc' = "simple_try"
            /\ raised' = raised
       ELSE /\ state' = state
            /\ pc' = "simple_raised"
            /\ raised' = Some("AttributeError")
    /\ node' = "intake"
    /\ UNCHANGED <<input, output, closed, stage_logs>>

\* the try block runs the stage at position n: the stage completes and its
\* log is appended, or an awaited call raises and control is in the except
\* clause
SimpleRunStage(n) ==
    /\ pc = "simple_try"
    /\ node = n
    /\ \E env \in SimpleEnv(simple_abilities(n), PayloadDict(state)) :
          LET r == simple_stage(n, state, env) IN
          /\ state' = r.state
          /\ IF r.exc = None
             THEN /\ stage_logs' = Append(stage_logs, r.log[1])
                  /\ node' = simple_next(n, r.state)
                  /\ pc' = IF simple_next(n, r.state) = END THEN "simple_output" ELSE pc
             ELSE /\ stage_logs' = stage_logs
                  /\ node' = node
                  /\ pc' = "simple_except"
    /\ UNCHANGED <<input, output, raised, closed>>

Simple_intake ==
    /\ node = "intake"
    /\ SimpleRunStage("intake")

Simple_understand ==
    /\ node = "understand"
    /\ SimpleRunStage("understand")

Simple_prepare ==
    /\ node = "prepare"
    /\ SimpleRunStage("prepare")

Simple_ask ==
    /\ node = "ask"
    /\ SimpleRunStage("ask")

Simple_wait ==
    /\ node = "wait"
    /\ SimpleRunStage("wait")

Simple_retrieve ==
    /\ node = "retrieve"
    /\ SimpleRunStage("retrieve")

Simple_decide ==
    /\ node = "decide"
    /\ SimpleRunStage("decide")

Simple_update ==
    /\ node = "update"
    /\ SimpleRunStage("update")

Simple_create ==
    /\ node = "create"
    /\ SimpleRunStage("create")

Simple_do ==
    /\ node = "do"
    /\ SimpleRunStage("do")

Simple_complete ==
    /\ node = "complete"
    /\ SimpleRunStage("complete")

\* an except clause that leaves the status as the stages set it
SimpleExcept_KeepStatus ==
    /\ pc = "simple_except"
    /\ pc' = "simple_output"
    /\ UNCHANGED <<input, node, state, output, raised, closed, stage_logs>>

\* except Exception: state.ticket_status = Status.PENDING
SimpleExcept ==
    /\ pc = "simple_except"
    /\ state' = [state EXCEPT !.ticket_status = StatusPENDING]
    /\ pc' = "simple_output"
    /\ UNCHANGED <<input, node, output, raised, closed, stage_logs>>

\* after the try statement: the OutputPayload is built and returned
SimpleBuildOutput ==
    /\ pc = "simple_output"
    /\ output' = Some(SimpleOutputPayload(input.ticket_id, state, stage_logs))
    /\ pc' = "simple_returned"
    /\ UNCHANGED <<input, node, state, raised, closed, stage_logs>>

SimpleStages ==
    \/ Simple_intake \/ Simple_understand \/ Simple_prepare \/ Simple_ask
    \/ Simple_wait \/ Simple_retrieve \/ Simple_decide \/ Simple_update
    \/ Simple_create \/ Simple_do \/ Simple_complete

NextSimple == SimpleCall \/ SimpleStages \/ SimpleExcept \/ SimpleBuildOutput

SpecSimple == InitSimple /\ [][NextSimple]_vars

\* one call of process_ticket on either agent
InitAgents == Init \/ InitSimple

NextAgents == Next \/ NextSimple

SpecAgents == InitAgents /\ [][NextAgents]_vars

\* SimpleLangGraphAgent.process_ticket has returned its OutputPayload
SimpleReturned == pc = "simple_returned"

-----------------------------------------------------------------------------
(* The provider layer on its own: a caller dispatches one ability, as one   *)
(* iteration of the loop of _execute_abilities does, up to MaxCalls times   *)
(* with the same server and ability name.                                   *)

\* at most this many calls with the same arguments
MaxCalls == 2

\* the keys of the response tables
AtlasAbilities ==
    {"extract_entities", "enrich_records", "clarify_question", "extract_answer",
     "knowledge_base_search", "escalation_decision", "update_ticket",
     "close_ticket", "execute_api_calls", "trigger_notifications"}

CommonAbilities ==
    {"parse_request_text", "normalize_fields", "add_flags_calculations",
     "solution_evaluation", "response_generation"}

\* the names _execute_internal_ability has a handler for
InternalAbilities ==
    {"accept_payload", "store_answer", "store_data", "update_payload",
     "output_payload"}

\* the (server, ability) arguments of a call: the registered clients, the
\* internal handler set and a server that is not registered; every name
\* some provider knows and one that none knows
ProviderCalls ==
    [server_name : Clients \cup {"internal", "BACKUP"},
     ability_name : AtlasAbilities \cup CommonAbilities \cup InternalAbilities
                      \cup {"translate_text"}]

InitProviders ==
    /\ pc = "provider"
    /\ input \in ProviderCalls
    /\ node = "intake"
    /\ state = CustomerSupportState(CHOOSE p \in InputPayload : p.well_formed)
    /\ output = <<>>
    /\ raised = None
    /\ closed = [c \in Clients |-> 0]
    /\ stage_logs = <<>>

\* await self.mcp_manager.execute_ability(server, ability_name, payload)
ManagerExecute ==
    /\ pc = "provider"
    /\ Len(output) < MaxCalls
    /\ \E outcome \in ServerOutcomes(input.server_name, input.ability_name,
                                      PayloadDict(state)) :
          output' = Append(output,
                       [call |-> "execute_ability",
                        outcome |-> outcome,
                        execution |->
                            MCPManager_execute_ability(input.server_name,
                                input.ability_name, outcome, Len(output))])
    /\ UNCHANGED <<pc, input, node, state, raised, closed, stage_logs>>

\* await self._execute_internal_ability(ability_name, state)
InternalExecute ==
    /\ pc = "provider"
    /\ input.server_name = "internal"
    /\ Len(output) < MaxCalls
    /\ output' = Append(output,
                     [call |-> "internal",
                      result |-> _execute_internal_ability(input.ability_name, state)])
    /\ UNCHANGED <<pc, input, node, state, raised, closed, stage_logs>>

NextProviders == ManagerExecute \/ InternalExecute

SpecProviders == InitProviders /\ [][NextProviders]_vars

-----------------------------------------------------------------------------
(* Properties *)

StageIds(logs) == [i \in DOMAIN logs |-> logs[i].stage_id]

\* stage id k has a log in logs
HasStage(logs, k) == \E i \in DOMAIN logs : logs[i].stage_id = k

\* the log of stage k in logs (the stage has one)
LogOf(logs, k) == logs[CHOOSE i \in DOMAIN logs : logs[i].stage_id = k]

\* an Optional[str] that is neither None nor ""
NonEmpty(opt) == opt # None /\ opt # Some("")

\* process_ticket has returned its OutputPayload
Returned == pc = "returned"

\* the workflow is between two nodes (or at END) and stage k was the last to run
JustRan(k) ==
    /\ pc = "workflow"
    /\ Len(state.stage_logs) > 0
    /\ LastLog(state).stage_id = k

\* C1: a returned OutputPayload with confidence_score below 90 has status
\* ESCALATED and a non-empty escalation_reason, whatever the providers and
\* the advice calls returned or raised.
C1_LowConfidenceIsEscalated ==
    Returned =>
        (output[1].confidence_score < EscalationThreshold =>
            /\ output[1].status = StatusESCALATED
            /\ NonEmpty(output[1].escalation_reason))

\* C2: when solution_evaluation returned a best score below 90, the state
\* after DECIDE has escalation_needed, status ESCALATED and the reason
\* "Low confidence score: <score>", whatever escalation_decision reported
\* (escalate false, escalate true or an ERROR outcome).
C2_ThresholdOverridesProvider ==
    JustRan(7) =>
        \A i \in DOMAIN LastLog(state).abilities_executed :
            LET e == LastLog(state).abilities_executed[i] IN
            (/\ e.ability_name = "solution_evaluation"
             /\ e.status = "success"
             /\ "best_score" \in DOMAIN e.result[1]
             /\ e.result[1].best_score < EscalationThreshold)
            => /\ state.escalation_needed
               /\ state.ticket_status = StatusESCALATED
               /\ state.escalation_reason
                     = Some(LowConfidenceReason(e.result[1].best_score))

\* C3: every run executes COMPLETE before its OutputPayload is produced, also
\* on the escalation exit: the returned stage_logs end with the stage-11 log.
C3_CompleteAlwaysRuns ==
    Returned =>
        /\ Len(output[1].stage_logs) > 0
        /\ output[1].stage_logs[Len(output[1].stage_logs)].stage_id = 11

\* C4: when the try block of a stage raises, the stage's log gets
\* success = false and error = the exception text, the exception does not
\* reach the caller of process_ticket, and the graph goes on with the node
\* its routing selects.
C4_StageFailureIsLogged ==
    pc = "workflow" =>
        /\ raised = None
        /\ \A r \in StageRuns(node, state) :
              r.caught # None =>
                  /\ r.escaped = None
                  /\ LastLog(r.state).success = FALSE
                  /\ LastLog(r.state).error = r.caught

\* how far process_ticket has come: every step of the run moves it forward
Rank ==
    CASE pc = "call" -> 0
      [] pc = "workflow" -> 1 + Len(state.stage_logs)
      [] pc = "finally" -> 13
      [] OTHER -> 14

\* the run is at a point where it has a step to take: an awaited call that
\* returns or raises always leaves the stage function with a run
CanStep ==
    \/ pc \in {"call", "finally"}
    \/ pc = "workflow" /\ (node = END \/ AdmittedRuns(node, state) # {})

\* C5: a call whose initial state is constructed terminates (it is never
\* stuck before its end, and every step moves it forward along a bounded
\* measure) and returns exactly one OutputPayload; no provider error and no
\* stage error reaches the caller.
C5_RunReturnsOneOutput ==
    /\ [](Done \/ CanStep)
    /\ [](Rank <= 14)
    /\ [][Rank' > Rank]_vars
    /\ []((Done /\ input.well_formed) => (Returned /\ output # None))
    /\ [](input.well_formed => raised = None)
    /\ [][output # None => output' = output]_vars

\* a run with a provider error and a failed stage has returned its output
C5_Witness ==
    /\ Returned
    /\ output # None
    /\ ProviderErrors(state) > 0
    /\ \E i \in DOMAIN output[1].stage_logs : ~output[1].stage_logs[i].success

\* C6: after process_ticket has returned or raised from the workflow,
\* MCPManager.close has closed every registered client exactly once.
C6_ClientsClosedOnce ==
    /\ \A c \in Clients : closed[c] <= 1
    /\ (Done /\ input.well_formed) => \A c \in Clients : closed[c] = 1

\* the workflow raised, process_ticket re-raised, and both clients are closed
C6_Witness ==
    /\ pc = "raised"
    /\ input.well_formed
    /\ raised # None
    /\ \A c \in Clients : closed[c] = 1

\* C7: provider teardown happens on every exit path of process_ticket, also
\* when constructing the initial state raises.
C7_TeardownOnEveryExit ==
    Done => \A c \in Clients : closed[c] >= 1

\* DECIDE has ended with confidence >= 90 and no escalation
ConfidentDecision ==
    /\ pc # "call"
    /\ input.well_formed
    /\ HasStage(state.stage_logs, 7)
    /\ state.confidence_score >= EscalationThreshold
    /\ ~state.escalation_needed

\* C8: when DECIDE ends with confidence_score >= 90 and escalation_needed
\* false, ticket_status is PENDING at the end of DECIDE and RESOLVED in every
\* state after UPDATE has run, the returned OutputPayload included.
C8_ResolvedAfterUpdate ==
    /\ [](ConfidentDecision =>
            /\ ~HasStage(state.stage_logs, 8) => state.ticket_status = StatusPENDING
            /\ HasStage(state.stage_logs, 8) => state.ticket_status = StatusRESOLVED
            /\ output # None => /\ HasStage(output[1].stage_logs, 8)
                                /\ output[1].status = StatusRESOLVED)
    /\ [][(pc # "call" /\ input.well_formed /\ HasStage(state.stage_logs, 7)) =>
            /\ state'.confidence_score = state.confidence_score
            /\ state'.escalation_needed = state.escalation_needed]_vars

\* a run decided at exactly the threshold has returned RESOLVED
C8_Witness ==
    /\ Returned
    /\ ConfidentDecision
    /\ output[1].confidence_score = EscalationThreshold
    /\ output[1].status = StatusRESOLVED

\* the stage ids logged after DECIDE
AfterDecide(logs) ==
    LET k == CHOOSE i \in DOMAIN logs : logs[i].stage_id = 7
    IN  SubSeq(StageIds(logs), k + 1, Len(logs))

IsPrefix(p, q) == Len(p) <= Len(q) /\ SubSeq(q, 1, Len(p)) = p

\* C9: the branch after DECIDE depends only on escalation_needed: when it is
\* false, UPDATE, CREATE, DO and COMPLETE run, each once and in that order;
\* when it is true, none of UPDATE, CREATE and DO runs.
C9_BranchAfterDecide ==
    (pc # "call" /\ input.well_formed /\ HasStage(state.stage_logs, 7)) =>
        LET after == AfterDecide(state.stage_logs) IN
        IF state.escalation_needed
        THEN \A i \in DOMAIN after : after[i] \notin {8, 9, 10}
        ELSE /\ IsPrefix(after, <<8, 9, 10, 11>>)
             /\ node = END => after = <<8, 9, 10, 11>>

\* DECIDE failed without escalating and the run went through stages 8..11
C9_Witness ==
    /\ Returned
    /\ ~state.escalation_needed
    /\ ~LogOf(state.stage_logs, 7).success
    /\ AfterDecide(output[1].stage_logs) = <<8, 9, 10, 11>>

\* C10: WAIT runs if and only if, when ASK ends, clarification_requested is
\* true and human_response is empty; otherwise RETRIEVE directly follows
\* ASK; WAIT is always followed by RETRIEVE.
C10_WaitIffClarification ==
    /\ [][(pc = "workflow" /\ node = "ask") =>
            node' = IF state'.clarification_requested /\ ~NonEmpty(state'.human_response)
                    THEN "wait" ELSE "retrieve"]_vars
    /\ [][(pc = "workflow" /\ node = "wait") => node' = "retrieve"]_vars
    /\ []((pc # "call" /\ input.well_formed) =>
            LET ids == StageIds(state.stage_logs) IN
            /\ \A i \in DOMAIN ids :
                  /\ (ids[i] = 4 /\ i < Len(ids)) => ids[i + 1] \in {5, 6}
                  /\ (ids[i] = 5 /\ i < Len(ids)) => ids[i + 1] = 6
                  /\ ids[i] = 5 => (i > 1 /\ ids[i - 1] = 4)
            /\ HasStage(state.stage_logs, 5) => state.clarification_requested
            /\ (HasStage(state.stage_logs, 6) /\ state.clarification_requested)
                  => HasStage(state.stage_logs, 5))

\* ASK failed after requesting clarification, and WAIT then RETRIEVE ran
C10_Witness ==
    /\ JustRan(6)
    /\ ~LogOf(state.stage_logs, 4).success
    /\ state.clarification_requested
    /\ StageIds(state.stage_logs) = <<1, 2, 3, 4, 5, 6>>

\* C11 (as stated): every stage_logs sequence a run returns, on either agent,
\* has at least 9 and at most 11 entries.
C11_NineToEleven ==
    (Returned \/ SimpleReturned) =>
        (Len(output[1].stage_logs) >= 9 /\ Len(output[1].stage_logs) <= 11)

\* C11 (amended): the returned stage_logs never has more than 11 entries.
\* LangGraphCustomerSupportAgent returns 6 or 7 entries on the escalation
\* exit and 10 or 11 otherwise.  SimpleLangGraphAgent returns 7 or 8 entries
\* when it escalated and 10 or 11 when it did not, and between 1 and 8 (the
\* stages completed before the exception) when a stage raised.
C11_StageLogCountByExit ==
    /\ Returned =>
          Len(output[1].stage_logs) \in
              (IF state.escalation_needed THEN {6, 7} ELSE {10, 11})
    /\ SimpleReturned =>
          LET logs == output[1].stage_logs IN
          IF Len(logs) > 0 /\ logs[Len(logs)].stage_id = 11
          THEN Len(logs) \in (IF state.escalation_needed THEN {7, 8} ELSE {10, 11})
          ELSE Len(logs) >= 1 /\ Len(logs) <= 8

\* the escalation exit has returned six stage logs
C11_Witness ==
    /\ Returned
    /\ state.escalation_needed
    /\ Len(output[1].stage_logs) = 6

\* the calls made so far through MCPManager.execute_ability
ManagerCalls == {i \in DOMAIN output : output[i].call = "execute_ability"}

\* C12: MCPManager.execute_ability never raises to its caller: for a server
\* name that is not registered it returns an AbilityExecution with status
\* "error" whose error text names the server; when the server call of a
\* registered client raises, it returns an AbilityExecution with status
\* "error", the exception text as error and no result.
C12_ExecuteNeverRaises ==
    pc = "provider" =>
        /\ raised = None
        /\ \A i \in ManagerCalls :
              LET e == output[i].execution IN
              /\ e.ability_name = input.ability_name
              /\ e.server_used = input.server_name
              /\ input.server_name \notin Clients =>
                    /\ e.status = "error"
                    /\ e.error = Some(<<"Unknown server: ", input.server_name>>)
                    /\ e.result = None
              /\ (input.server_name \in Clients /\ output[i].outcome.raises) =>
                    /\ e.status = "error"
                    /\ e.error = Some(output[i].outcome.text)
                    /\ e.result = None

\* the server call of a registered client raised and the call returned
C12_Witness ==
    /\ pc = "provider"
    /\ input.server_name \in Clients
    /\ \E i \in ManagerCalls :
          /\ output[i].outcome.raises
          /\ output[i].execution.status = "error"

\* the provider the call is addressed to has no entry for the ability name
UnknownAbility ==
    \/ input.server_name = "ATLAS" /\ input.ability_name \notin AtlasAbilities
    \/ input.server_name = "COMMON" /\ input.ability_name \notin CommonAbilities
    \/ input.server_name = "internal" /\ input.ability_name \notin InternalAbilities

\* C13: executing an ability name the provider does not know does not fail:
\* a registered client answers the structured result "ability_not_found"
\* inside a successful AbilityExecution, the internal handler answers
\* "unknown_internal_ability"; a second call with the same name gets the
\* same result; and no call changes the ticket state or a client.
C13_UnknownAbilityNotFound ==
    /\ []((pc = "provider" /\ UnknownAbility) =>
            /\ raised = None
            /\ \A i \in DOMAIN output :
                  /\ (/\ output[i].call = "execute_ability"
                      /\ input.server_name \in Clients
                      /\ ~output[i].outcome.raises) =>
                        /\ output[i].execution.status = "success"
                        /\ output[i].execution.result = Some(NotFound)
                        /\ output[i].execution.error = None
                  /\ output[i].call = "internal" =>
                        output[i].result = [status |-> "unknown_internal_ability"]
            /\ \A i, j \in DOMAIN output :
                  (/\ output[i].call = output[j].call
                   /\ output[i].call = "execute_ability" =>
                         (~output[i].outcome.raises /\ ~output[j].outcome.raises))
                  => IF output[i].call = "internal"
                     THEN output[i].result = output[j].result
                     ELSE output[i].execution.result = output[j].execution.result)
    /\ [][pc = "provider" =>
            (state' = state /\ closed' = closed /\ input' = input)]_vars

\* COMMON was asked twice for an ability only ATLAS knows
C13_Witness ==
    /\ pc = "provider"
    /\ input.server_name = "COMMON"
    /\ input.ability_name = "extract_entities"
    /\ Len(output) = MaxCalls
    /\ \A i \in DOMAIN output :
          /\ output[i].call = "execute_ability"
          /\ ~output[i].outcome.raises
          /\ output[i].execution.result = Some(NotFound)

\* the AbilityExecution records of ability name in the log of stage k
ExecsOf(logs, k, name) ==
    IF HasStage(logs, k)
    THEN LET xs == LogOf(logs, k).abilities_executed
         IN  {xs[i] : i \in {j \in DOMAIN xs : xs[j].ability_name = name}}
    ELSE {}

\* solution_evaluation returned best score b to DECIDE
BestScoreReturned(logs, b) ==
    \E e \in ExecsOf(logs, 7, "solution_evaluation") :
        /\ e.status = "success"
        /\ "best_score" \in DOMAIN e.result[1]
        /\ e.result[1].best_score = b

\* escalation_decision returned escalate = v to DECIDE
EscalateReturned(logs, v) ==
    \E e \in ExecsOf(logs, 7, "escalation_decision") :
        /\ e.status = "success"
        /\ "escalate" \in DOMAIN e.result[1]
        /\ e.result[1].escalate = v

\* C14: scenario A.  For an input with priority HIGH, when solution_evaluation
\* returned best score 92 and escalation_decision returned escalate = false,
\* with no provider error (and no failed stage), the OutputPayload has status
\* RESOLVED, a non-empty response, an empty escalation_reason and 11 stage
\* logs.
C14_ScenarioA ==
    (/\ Returned
     /\ input.priority = "high"
     /\ BestScoreReturned(output[1].stage_logs, CannedBestScore)
     /\ EscalateReturned(output[1].stage_logs, FALSE)
     /\ ProviderErrors(state) = 0
     /\ \A i \in DOMAIN output[1].stage_logs : output[1].stage_logs[i].success)
    => /\ output[1].status = StatusRESOLVED
       /\ NonEmpty(output[1].response)
       /\ ~NonEmpty(output[1].escalation_reason)
       /\ Len(output[1].stage_logs) = 11

SearchFailed ==
    /\ pc # "call"
    /\ input.well_formed
    /\ \E e \in ExecsOf(state.stage_logs, 6, "knowledge_base_search") :
          e.status = "error"

\* C16: scenario C.  When the provider returns an ERROR AbilityExecution for
\* knowledge_base_search, the RETRIEVE StageLog has success = false, DECIDE
\* is the next stage to run, and the run returns an OutputPayload whose
\* stage_logs hold the failed RETRIEVE log followed by the DECIDE log.
C16_ScenarioC ==
    /\ [](SearchFailed =>
            /\ ~LogOf(state.stage_logs, 6).success
            /\ LogOf(state.stage_logs, 6).error = Some(AttributeErrorText)
            /\ raised = None
            /\ Len(state.stage_logs) > 0 /\ LastLog(state).stage_id = 6 => node = "decide"
            /\ Done =>
                  /\ Returned
                  /\ output # None
                  /\ ~LogOf(output[1].stage_logs, 6).success
                  /\ HasStage(output[1].stage_logs, 7)
                  /\ \A i \in DOMAIN output[1].stage_logs :
                        output[1].stage_logs[i].stage_id = 6 =>
                            /\ i < Len(output[1].stage_logs)
                            /\ output[1].stage_logs[i + 1].stage_id = 7)
    /\ [][(pc = "workflow" /\ node = "retrieve") => node' = "decide"]_vars

\* the search failed, DECIDE ran after it and the run has returned
C16_Witness ==
    /\ Returned
    /\ SearchFailed
    /\ ~LogOf(output[1].stage_logs, 6).success
    /\ LogOf(output[1].stage_logs, 7).success

\* the abilities stage k declares
DeclaredAbilities(k) ==
    CASE k = 1 -> abilities_01 [] k = 2 -> abilities_02 [] k = 3 -> abilities_03
      [] k = 4 -> abilities_04 [] k = 5 -> abilities_05 [] k = 6 -> abilities_06
      [] k = 7 -> abilities_07 [] k = 8 -> abilities_08 [] k = 9 -> abilities_09
      [] k = 10 -> abilities_10 [] k = 11 -> abilities_11

\* the remote abilities among them, in declared order
DeclaredRemote(k) ==
    SelectSeq(DeclaredAbilities(k), LAMBDA a : a.server # "internal")

\* C17: within every stage the abilities are executed one at a time in
\* declared order: the AbilityExecution records of a stage log are those of
\* the stage's remote abilities in declared order (none at all when ASK or
\* DECIDE did not reach its abilities), each call is stamped after the stage
\* started and not before the call that precedes it.
C17_AbilitiesInDeclaredOrder ==
    (pc # "call" /\ input.well_formed) =>
        \A n \in DOMAIN state.stage_logs :
            LET log == state.stage_logs[n]
                xs == log.abilities_executed
                decl == DeclaredRemote(log.stage_id)
            IN  /\ \/ /\ Len(xs) = Len(decl)
                      /\ \A i \in DOMAIN xs :
                            /\ xs[i].ability_name = decl[i].name
                            /\ xs[i].server_used = decl[i].server
                   \/ xs = <<>> /\ log.stage_id \in {4, 7}
                /\ \A i \in DOMAIN xs : xs[i].execution_time >= log.start_time
                /\ \A i, j \in DOMAIN xs :
                      i < j => xs[i].execution_time <= xs[j].execution_time

\* PREPARE ran its three abilities and the second one ended in an ERROR
C17_Witness ==
    /\ JustRan(3)
    /\ Len(LastLog(state).abilities_executed) = 3
    /\ LastLog(state).abilities_executed[2].status = "error"
    /\ LastLog(state).abilities_executed[3].status = "success"

\* C18: every StageLog of a returned OutputPayload has end_time set; it is
\* set after the stage started and after every ability call of the stage
\* was issued and had returned (in the logical clock: later than each
\* execution_time); between two stages no log is open; and a log that has
\* its end_time is never written again, so end_time is set exactly once.
C18_EndTimeSetOnce ==
    /\ [](Returned =>
            \A n \in DOMAIN output[1].stage_logs :
                LET log == output[1].stage_logs[n] IN
                /\ log.end_time # None
                /\ log.start_time < log.end_time[1]
                /\ \A i \in DOMAIN log.abilities_executed :
                      log.abilities_executed[i].execution_time < log.end_time[1])
    /\ []((pc # "call" /\ input.well_formed) =>
            \A n \in DOMAIN state.stage_logs : state.stage_logs[n].end_time # None)
    /\ [][(pc # "call" /\ input.well_formed) =>
            \A n \in DOMAIN state.stage_logs :
                /\ n \in DOMAIN state'.stage_logs
                /\ state'.stage_logs[n] = state.stage_logs[n]]_vars

\* a returned run holds the closed log of a stage that failed after its
\* ability call
C18_Witness ==
    /\ Returned
    /\ \E n \in DOMAIN output[1].stage_logs :
          LET log == output[1].stage_logs[n] IN
          /\ ~log.success
          /\ log.end_time # None
          /\ Len(log.abilities_executed) > 0

\* C19: no ability call is retried: in one run every stage has at most one
\* log (the stage ids of the logs are strictly increasing), and a stage log
\* holds at most one AbilityExecution per declared ability, also when that
\* execution is an ERROR or the stage is logged as failed.
C19_NoRetry ==
    (pc # "call" /\ input.well_formed) =>
        /\ \A m, n \in DOMAIN state.stage_logs :
              m < n => state.stage_logs[m].stage_id < state.stage_logs[n].stage_id
        /\ \A n \in DOMAIN state.stage_logs :
              LET xs == state.stage_logs[n].abilities_executed IN
              /\ \A i, j \in DOMAIN xs :
                    xs[i].ability_name = xs[j].ability_name => i = j
              /\ \A i \in DOMAIN xs :
                    \E k \in DOMAIN DeclaredRemote(state.stage_logs[n].stage_id) :
                        DeclaredRemote(state.stage_logs[n].stage_id)[k].name
                            = xs[i].ability_name

\* UNDERSTAND failed on an ERROR of its first ability and the run returned
C19_Witness ==
    /\ Returned
    /\ ~LogOf(state.stage_logs, 2).success
    /\ Len(LogOf(state.stage_logs, 2).abilities_executed) = 2
    /\ LogOf(state.stage_logs, 2).abilities_executed[1].status = "error"

\* the advice calls that return a text
AdviceTexts == {llm \in LLMOutcomes : ~llm.raises}

\* C20: the text the DECIDE advice call returns does not influence the
\* outcome: from any state in which DECIDE is about to run, and for the same
\* provider answers, two advice texts lead to the same state after DECIDE
\* (confidence_score, escalation_needed, escalation_reason, ticket_status
\* and the stage log included) and to the same next node.
C20_AdviceTextIsInert ==
    (pc = "workflow" /\ node = "decide") =>
        \A env \in AbilityEnv(abilities_07, PayloadDict(state)) :
            \A a, b \in AdviceTexts :
                LET ra == stage_07_decide(state, a, env)
                    rb == stage_07_decide(state, b, env)
                IN  /\ ra.state.confidence_score = rb.state.confidence_score
                    /\ ra.state.escalation_needed = rb.state.escalation_needed
                    /\ ra.state.escalation_reason = rb.state.escalation_reason
                    /\ ra.state.ticket_status = rb.state.ticket_status
                    /\ ra = rb
                    /\ NextNode("decide", ra.state) = NextNode("decide", rb.state)

\* DECIDE is about to run and two different advice texts both end it with
\* an escalation on a low score
C20_Witness ==
    /\ pc = "workflow"
    /\ node = "decide"
    /\ \E env \in AbilityEnv(abilities_07, PayloadDict(state)) :
          \E a, b \in AdviceTexts :
              /\ a.content # b.content
              /\ stage_07_decide(state, a, env).state.ticket_status = StatusESCALATED
              /\ stage_07_decide(state, b, env).state.ticket_status = StatusESCALATED
              /\ stage_07_decide(state, a, env).state.confidence_score = CannedLowScore

\* C23: from the end of DECIDE on, and in the returned OutputPayload,
\* escalation_needed is true if and only if ticket_status is ESCALATED.
C23_EscalationMatchesStatus ==
    (pc # "call" /\ input.well_formed /\ HasStage(state.stage_logs, 7)) =>
        /\ state.escalation_needed <=> (state.ticket_status = StatusESCALATED)
        /\ Returned =>
             (output[1].final_payload.escalation_needed
                <=> (output[1].status = StatusESCALATED))

\* logs are in graph order: the stage ids are strictly increasing, the first
\* four logs (as far as the run has come) are INTAKE, UNDERSTAND, PREPARE and
\* ASK, and every log was closed before the next one was started
InGraphOrder(logs) ==
    /\ \A m, n \in DOMAIN logs : m < n => logs[m].stage_id < logs[n].stage_id
    /\ \A n \in DOMAIN logs : n <= 4 => logs[n].stage_id = n
    /\ \A n \in DOMAIN logs :
          n < Len(logs) =>
              /\ logs[n].end_time # None
              /\ logs[n].end_time[1] < logs[n + 1].start_time

ExecsWith(logs, k, name, st) == {e \in ExecsOf(logs, k, name) : e.status = st}

\* C25: no rollback on stage failure.  What a stage wrote before it raised
\* is present in every later state: when ASK's advice said YES and
\* clarify_question ended in an ERROR, ASK is logged as failed,
\* clarification_requested stays true and WAIT runs next; the entities
\* UNDERSTAND merged from parse_request_text stay when extract_entities
\* fails; the fields PREPARE normalized stay when enrich_records fails; the
\* confidence DECIDE took from solution_evaluation stays when
\* escalation_decision fails.
C25_NoRollback ==
    (pc # "call" /\ input.well_formed) =>
        LET logs == state.stage_logs IN
        /\ ExecsWith(logs, 4, "clarify_question", "error") # {} =>
              /\ ~LogOf(logs, 4).success
              /\ state.clarification_requested
              /\ JustRan(4) => node = "wait"
              /\ Len(logs) > 4 => logs[5].stage_id = 5
        /\ \A e \in ExecsWith(logs, 2, "parse_request_text", "success") :
              ExecsWith(logs, 2, "extract_entities", "error") # {} =>
                  /\ ~LogOf(logs, 2).success
                  /\ \A k \in DOMAIN e.result[1].structured_data :
                        /\ k \in DOMAIN state.extracted_entities
                        /\ state.extracted_entities[k] = e.result[1].structured_data[k]
        /\ \A e \in ExecsWith(logs, 3, "normalize_fields", "success") :
              ExecsWith(logs, 3, "enrich_records", "error") # {} =>
                  /\ ~LogOf(logs, 3).success
                  /\ state.normalized_fields = e.result[1].normalized
        /\ \A e \in ExecsWith(logs, 7, "solution_evaluation", "success") :
              ExecsWith(logs, 7, "escalation_decision", "error") # {} =>
                  /\ ~LogOf(logs, 7).success
                  /\ state.confidence_score = Get(e.result[1], "best_score", 0)

\* ASK failed on clarify_question, WAIT ran, and the run has returned with
\* clarification_requested still true
C25_Witness ==
    /\ Returned
    /\ ExecsWith(state.stage_logs, 4, "clarify_question", "error") # {}
    /\ HasStage(output[1].stage_logs, 5)
    /\ output[1].final_payload.clarification_requested

\* C26: a provider error is isolated to its own AbilityExecution.  The ERROR
\* record is appended to the stage log with no result and with the error
\* text, and every ability the stage declares after the failed one is still
\* executed: it has its own record, which holds either an answer of its own
\* server to that ability or its own error.
C26_ErrorIsolated ==
    (pc # "call" /\ input.well_formed) =>
        \A n \in DOMAIN state.stage_logs :
            LET log == state.stage_logs[n]
                xs == log.abilities_executed
                decl == DeclaredRemote(log.stage_id)
            IN  \A i \in DOMAIN xs :
                    xs[i].status = "error" =>
                        /\ xs[i].result = None
                        /\ NonEmpty(xs[i].error)
                        /\ \A j \in (i + 1) .. Len(decl) :
                              /\ j \in DOMAIN xs
                              /\ xs[j].ability_name = decl[j].name
                              /\ xs[j].status = "success" =>
                                    /\ xs[j].result # None
                                    /\ xs[j].result[1] \in
                                          ServerResponses(decl[j].server, decl[j].name,
                                                          PayloadDict(state))
                                    /\ xs[j].error = None
                              /\ xs[j].status = "error" => xs[j].result = None

\* UNDERSTAND's first ability ended in an ERROR and its second one returned
\* the entities of the ATLAS server
C26_Witness ==
    /\ pc = "workflow"
    /\ HasStage(state.stage_logs, 2)
    /\ LET xs == LogOf(state.stage_logs, 2).abilities_executed IN
       /\ Len(xs) = 2
       /\ xs[1].status = "error"
       /\ xs[2].status = "success"
       /\ xs[2].result = Some(atlas_ability_response("extract_entities", PayloadDict(state)))

\* C27: exactly one AbilityExecution is recorded per ability call, the
\* internal abilities (accept_payload, store_answer, store_data,
\* update_payload, output_payload) included: the records of a stage log are
\* those of all the abilities the stage called, one each, in call order (ASK
\* and DECIDE may have called none).
C27_OneRecordPerAbilityCall ==
    (pc # "call" /\ input.well_formed) =>
        \A n \in DOMAIN state.stage_logs :
            LET log == state.stage_logs[n]
                xs == log.abilities_executed
                called == DeclaredAbilities(log.stage_id)
            IN  \/ /\ Len(xs) = Len(called)
                   /\ \A i \in DOMAIN xs : xs[i].ability_name = called[i].name
                \/ xs = <<>> /\ log.stage_id \in {4, 7}

\* the advice call returned a text that contains YES in any letter case
SaysYes(llm) == ~llm.raises /\ Contains(Upper(llm.content), <<"Y", "E", "S">>)

\* C28: in stage_04_ask the one advice call decides everything:
\* clarification_requested becomes true exactly when the returned text
\* contains YES in any letter case; exactly then clarify_question is
\* executed (once) and clarification_question, when it is set, is the
\* question of that execution's result; otherwise (another text, or the
\* advice call raised) no ability is executed and clarification_requested
\* and clarification_question stay as they were, false and unset.
C28_AskFollowsAdvice ==
    /\ (pc = "workflow" /\ node = "ask") =>
          /\ ~state.clarification_requested
          /\ state.clarification_question = None
          /\ \A llm \in LLMOutcomes :
                \A env \in AbilityEnv(abilities_04, PayloadDict(state)) :
                    LET r == stage_04_ask(state, llm, env)
                        xs == LastLog(r.state).abilities_executed
                    IN  /\ r.state.clarification_requested <=> SaysYes(llm)
                        /\ SaysYes(llm) =>
                              /\ Len(xs) = 1
                              /\ xs[1].ability_name = "clarify_question"
                              /\ xs[1].status = "success" =>
                                    r.state.clarification_question =
                                        Some(xs[1].result[1].question)
                              /\ xs[1].status = "error" =>
                                    r.state.clarification_question = None
                        /\ ~SaysYes(llm) =>
                              /\ xs = <<>>
                              /\ r.state.clarification_question = None
    /\ (pc # "call" /\ input.well_formed /\ HasStage(state.stage_logs, 4)) =>
          /\ state.clarification_requested <=>
                ExecsOf(state.stage_logs, 4, "clarify_question") # {}
          /\ state.clarification_question # None =>
                \E e \in ExecsWith(state.stage_logs, 4, "clarify_question", "success") :
                    state.clarification_question = Some(e.result[1].question)

\* ASK has just run, asked for a clarification and took the question from
\* the answer of clarify_question
C28_Witness ==
    /\ pc = "workflow"
    /\ JustRan(4)
    /\ LastLog(state).success
    /\ state.clarification_requested
    /\ state.clarification_question =
          Some(atlas_ability_response("clarify_question", PayloadDict(state)).question)

\* the greatest number of a non-empty finite set
MaxOf(S) == CHOOSE m \in S : \A x \in S : x <= m

\* C29: after a successful DECIDE confidence_score is the best (greatest)
\* score among the solutions solution_evaluation returned, whatever the
\* solutions list is, and solution_scores maps the label of every returned
\* solution to its score.
C29_ConfidenceIsBestScore ==
    (pc # "call" /\ input.well_formed /\ HasStage(state.stage_logs, 7)
        /\ LogOf(state.stage_logs, 7).success) =>
        \A e \in ExecsWith(state.stage_logs, 7, "solution_evaluation", "success") :
            LET solutions == Get(e.result[1], "solutions", <<>>) IN
            /\ solutions # <<>> =>
                  state.confidence_score =
                      MaxOf({solutions[i].score : i \in DOMAIN solutions})
            /\ DOMAIN state.solution_scores =
                  {solutions[i].solution : i \in DOMAIN solutions}
            /\ \A i \in DOMAIN solutions :
                  state.solution_scores[solutions[i].solution] = solutions[i].score

\* mapping d2 holds every entry of mapping d1
ExtendsDict(d1, d2) ==
    /\ DOMAIN d1 \subseteq DOMAIN d2
    /\ \A k \in DOMAIN d1 : d2[k] = d1[k]

\* an optional field that was set keeps its value
KeepsValue(o1, o2) == o1 # None => o2 = o1

\* every answer a stage merged into a mapping is in the mapping
MergedInto(logs, k, name, field, d) ==
    \A e \in ExecsWith(logs, k, name, "success") :
        ExtendsDict(IF field = "" THEN e.result[1]
                    ELSE Get(e.result[1], field, EmptyDict), d)

\* C30: the accumulating fields of the state only grow.  In every step of a
\* run the mappings extracted_entities, normalized_fields, enriched_data and
\* solution_scores keep all their entries, the sequences
\* knowledge_base_results, api_calls_executed, notifications_sent and
\* stage_logs keep what they hold as a prefix, and generated_response (like
\* the clarification question and the human response) keeps its value once
\* set; a stage that merges several answers keeps all of them
\* (UNDERSTAND's two, PREPARE's two into enriched_data).  Only
\* ticket_status, confidence_score, escalation_needed and escalation_reason
\* are written without regard to their old value.
C30_AccumulatingFieldsGrow ==
    /\ [][(pc # "call" /\ input.well_formed) =>
            /\ ExtendsDict(state.extracted_entities, state'.extracted_entities)
            /\ ExtendsDict(state.normalized_fields, state'.normalized_fields)
            /\ ExtendsDict(state.enriched_data, state'.enriched_data)
            /\ ExtendsDict(state.solution_scores, state'.solution_scores)
            /\ IsPrefix(state.knowledge_base_results, state'.knowledge_base_results)
            /\ IsPrefix(state.api_calls_executed, state'.api_calls_executed)
            /\ IsPrefix(state.notifications_sent, state'.notifications_sent)
            /\ IsPrefix(state.stage_logs, state'.stage_logs)
            /\ KeepsValue(state.generated_response, state'.generated_response)
            /\ KeepsValue(state.clarification_question, state'.clarification_question)
            /\ KeepsValue(state.human_response, state'.human_response)
            /\ state.clarification_requested => state'.clarification_requested]_vars
    /\ []((pc # "call" /\ input.well_formed) =>
            LET logs == state.stage_logs IN
            /\ HasStage(logs, 2) /\ LogOf(logs, 2).success =>
                  /\ MergedInto(logs, 2, "parse_request_text", "structured_data",
                                state.extracted_entities)
                  /\ MergedInto(logs, 2, "extract_entities", "entities",
                                state.extracted_entities)
            /\ HasStage(logs, 3) /\ LogOf(logs, 3).success =>
                  /\ MergedInto(logs, 3, "normalize_fields", "normalized",
                                state.normalized_fields)
                  /\ MergedInto(logs, 3, "enrich_records", "", state.enriched_data)
                  /\ MergedInto(logs, 3, "add_flags_calculations", "flags",
                                state.enriched_data))

\* a returned run in which every accumulating field was filled and the
\* status was overwritten by UPDATE
C30_Witness ==
    /\ Returned
    /\ DOMAIN state.extracted_entities =
          {"issue_category", "sentiment", "product", "issue_type"}
    /\ DOMAIN state.enriched_data =
          {"sla_info", "historical_tickets", "high_priority", "sla_risk"}
    /\ state.knowledge_base_results # <<>>
    /\ state.generated_response # None
    /\ state.api_calls_executed # <<>>
    /\ state.notifications_sent # <<>>
    /\ Len(state.stage_logs) = 11
    /\ state.ticket_status = StatusRESOLVED

-----------------------------------------------------------------------------
(* Cancellation of the task that runs process_ticket *)

\* the arguments of the _log_stage_start call of each node's stage function
StageHeader(n) ==
    CASE n = "intake" -> [stage_name |-> "INTAKE", stage_id |-> 1, mode |-> "entry_only"]
      [] n = "understand" -> [stage_name |-> "UNDERSTAND", stage_id |-> 2, mode |-> "deterministic"]
      [] n = "prepare" -> [stage_name |-> "PREPARE", stage_id |-> 3, mode |-> "deterministic"]
      [] n = "ask" -> [stage_name |-> "ASK", stage_id |-> 4, mode |-> "human_interaction"]
      [] n = "wait" -> [stage_name |-> "WAIT", stage_id |-> 5, mode |-> "deterministic"]
      [] n = "retrieve" -> [stage_name |-> "RETRIEVE", stage_id |-> 6, mode |-> "deterministic"]
      [] n = "decide" -> [stage_name |-> "DECIDE", stage_id |-> 7, mode |-> "non_deterministic"]
      [] n = "update" -> [stage_name |-> "UPDATE", stage_id |-> 8, mode |-> "deterministic"]
      [] n = "create" -> [stage_name |-> "CREATE", stage_id |-> 9, mode |-> "deterministic"]
      [] n = "do" -> [stage_name |-> "DO", stage_id |-> 10, mode |-> "deterministic"]
      [] n = "complete" -> [stage_name |-> "COMPLETE", stage_id |-> 11, mode |-> "output_only"]

\* The states in which the stage of node n is suspended in the await of a
\* remote ability call: the stage log is started, the abilities declared
\* before the call have been executed, and the state fields are untouched
\* (every stage processes its results after _execute_abilities returns).
InFlight(n, s) ==
    LET h == StageHeader(n)
        abilities == DeclaredAbilities(h.stage_id)
        s1 == _log_stage_start(s, h.stage_name, h.stage_id, h.mode)
    IN  UNION {
          {_execute_abilities(s1, SubSeq(abilities, 1, i - 1), env).state :
              env \in AbilityEnv(SubSeq(abilities, 1, i - 1), PayloadDict(s))} :
          i \in {i \in DOMAIN abilities : abilities[i].server # "internal"}}

\* The task is cancelled while a remote ability call is in flight:
\* CancelledError is raised at the await of the server call.  It is a
\* BaseException, so neither "except Exception" of
\* MCPClient.execute_ability, nor that of the stage function, nor that of
\* process_ticket handles it; only the finally clause of process_ticket is
\* pending.
Cancel ==
    /\ pc = "workflow"
    /\ node # END
    /\ \E s \in InFlight(node, state) :
          /\ ProviderErrors(s) <= MaxProviderErrors
          /\ state' = s
    /\ raised' = Some("CancelledError")
    /\ pc' = "finally"
    /\ UNCHANGED <<input, node, output, closed, stage_logs>>

NextCancel == Next \/ Cancel

SpecCancel == Init /\ [][NextCancel]_vars

\* C22: when a run is cancelled while an ability call is in flight, the log
\* of the stage that was running is closed (end_time set) with success false
\* and a cancellation error, and the provider clients are closed, by the
\* time process_ticket has exited.
C22_CancelClosesStage ==
    (pc = "raised" /\ raised = Some("CancelledError")) =>
        /\ LastLog(state).end_time # None
        /\ ~LastLog(state).success
        /\ NonEmpty(LastLog(state).error)
        /\ \A c \in Clients : closed[c] >= 1

-----------------------------------------------------------------------------
(* Two process_ticket calls on one LangGraphAgent, interleaved.  Every     *)
(* variable of a run is indexed by the run; the MCPManager and its clients *)
(* (closed) belong to the agent and are shared.                            *)

Runs == {1, 2}

\* the tickets of the two calls
PairInput(r) ==
    IF r = 1
    THEN [customer_name |-> "John Smith", email |-> "john.smith@example.com",
          query |-> "login", priority |-> "high", ticket_id |-> "T-1",
          well_formed |-> TRUE]
    ELSE [customer_name |-> "Jane Doe", email |-> "jane.doe@example.com",
          query |-> "refund", priority |-> "high", ticket_id |-> "T-2",
          well_formed |-> TRUE]

\* the runs of a stage function in which every provider call and the advice
\* call return an answer
AnsweredRuns(n, s) ==
    {x \in StageRuns(n, s) : ProviderErrors(x.state) = 0 /\ LastLog(x.state).success}

\* an agent that keeps one state object for all its runs
PairSetState_Shared(st, r, s) == [q \in Runs |-> s]

\* initial_state is a local of the call: a stage writes the state object of
\* its own run
PairSetState(st, r, s) == [st EXCEPT ![r] = s]

InitPair ==
    /\ pc = [r \in Runs |-> "call"]
    /\ input = [r \in Runs |-> PairInput(r)]
    /\ node = [r \in Runs |-> "intake"]
    /\ state = [r \in Runs |-> <<>>]
    /\ output = [r \in Runs |-> None]
    /\ raised = [r \in Runs |-> None]
    /\ closed = [c \in Clients |-> 0]
    /\ stage_logs = <<>>

\* process_ticket of run r up to the try
PairCall(r) ==
    /\ pc[r] = "call"
    /\ state' = PairSetState(state, r, CustomerSupportState(input[r]))
    /\ pc' = [pc EXCEPT ![r] = "workflow"]
    /\ UNCHANGED <<input, node, output, raised, closed, stage_logs>>

\* workflow.ainvoke of run r runs one node and follows its edge
PairRunNode(r) ==
    /\ pc[r] = "workflow"
    /\ node[r] # END
    /\ \E x \in AnsweredRuns(node[r], state[r]) :
          /\ state' = PairSetState(state, r, x.state)
          /\ node' = [node EXCEPT ![r] = NextNode(node[r], x.state)]
    /\ UNCHANGED <<pc, input, output, raised, closed, stage_logs>>

\* run r builds its OutputPayload from the state ainvoke returned to it
PairBuildOutput(r) ==
    /\ pc[r] = "workflow"
    /\ node[r] = END
    /\ output' = [output EXCEPT ![r] = Some(OutputPayload(input[r].ticket_id, state[r]))]
    /\ pc' = [pc EXCEPT ![r] = "finally"]
    /\ UNCHANGED <<input, node, state, raised, closed, stage_logs>>

\* the finally clause of run r closes the clients of the agent, whatever
\* the other run is doing
PairFinally(r) ==
    /\ pc[r] = "finally"
    /\ closed' = MCPManager_close(closed)
    /\ pc' = [pc EXCEPT ![r] = "returned"]
    /\ UNCHANGED <<input, node, state, output, raised, stage_logs>>

NextPair ==
    \E r \in Runs : PairCall(r) \/ PairRunNode(r) \/ PairBuildOutput(r) \/ PairFinally(r)

SpecPair == InitPair /\ [][NextPair]_vars

\* the final states of a run that has the agent for itself
RECURSIVE SoloFinals(_, _)
SoloFinals(n, s) ==
    IF n = END THEN {s}
    ELSE UNION {SoloFinals(NextNode(n, x.state), x.state) : x \in AnsweredRuns(n, s)}

\* what process_ticket may return for each ticket when it runs alone
SoloOutputs ==
    [r \in Runs |->
        {OutputPayload(PairInput(r).ticket_id, s) :
            s \in SoloFinals("intake", CustomerSupportState(PairInput(r)))}]

-----------------------------------------------------------------------------
\* a run of either agent holds a state object
InRun == input.well_formed /\ pc \notin {"call", "simple_call"}

\* C31: in every reachable state of a run of either agent, and in the
\* OutputPayload it returns, ticket_status = RESOLVED implies
\* confidence_score >= 90 and escalation_needed = false; no step sets the
\* status to RESOLVED while the confidence is below the threshold.
C31_ResolvedIsConfident ==
    /\ [](InRun =>
            /\ state.ticket_status = StatusRESOLVED =>
                  /\ state.confidence_score >= EscalationThreshold
                  /\ ~state.escalation_needed
            /\ (output # None /\ output[1].status = StatusRESOLVED) =>
                  /\ output[1].confidence_score >= EscalationThreshold
                  /\ ~output[1].final_payload.escalation_needed)
    /\ [][(InRun /\ state.ticket_status # StatusRESOLVED
               /\ state'.ticket_status = StatusRESOLVED) =>
              state'.confidence_score >= EscalationThreshold]_vars

\* the LangGraph run returned RESOLVED with a confidence exactly at the
\* threshold
C31_Witness ==
    /\ pc = "returned"
    /\ output[1].status = StatusRESOLVED
    /\ output[1].confidence_score = EscalationThreshold
    /\ HasStage(output[1].stage_logs, 8)

\* C32: in SimpleLangGraphAgent.process_ticket a failure inside one stage
\* does not halt the run: whatever was raised, once the try statement is
\* left the stages after the failing one have run and COMPLETE (stage 11)
\* is in the stage logs.
C32_SimpleFailureDoesNotHalt ==
    (pc \in {"simple_output", "simple_returned"}) =>
        /\ HasStage(stage_logs, 11)
        /\ state.processing_complete

\* C33: in SimpleLangGraphAgent.process_ticket, when DECIDE computed a
\* confidence_score of 90 or more, ticket_status is still PENDING as long
\* as UPDATE has not run: it becomes RESOLVED only in UPDATE.
C33_SimpleResolvedOnlyInUpdate ==
    (pc = "simple_try" /\ HasStage(stage_logs, 7) /\ ~HasStage(stage_logs, 8)
        /\ state.confidence_score >= EscalationThreshold) =>
        state.ticket_status = StatusPENDING

-----------------------------------------------------------------------------
(* working_demo.py: the dependency-free LangGraphCustomerSupportAgent.  Its *)
(* process_ticket keeps the processing state in local variables (the record *)
(* in state) and the logs in the local list stage_logs.                     *)

\* working_demo.StageLog(stage_name, stage_id, emoji); start_time is read
\* from the clock by the constructor (the emoji is left out)
DemoStageLog(stage_name, stage_id, now) ==
    [stage_name |-> stage_name, stage_id |-> stage_id, start_time |-> now,
     end_time |-> None, abilities_executed |-> <<>>, success |-> TRUE,
     duration |-> 0]

\* working_demo _complete_stage
Demo_complete_stage(stage_log, success, now) ==
    [stage_log EXCEPT !.end_time = Some(now), !.success = success,
                      !.duration = now - stage_log.start_time]

DemoSolutions ==
    << [solution |-> "Password reset email", score |-> 85],
       [solution |-> "Account unlock", score |-> 92],
       [solution |-> "Escalate to security", score |-> 45] >>

\* working_demo _simulate_ability: the canned answers
Demo_simulate_ability(ability_name, server, payload, now) ==
    LET responses ==
          [parse_request_text |->
              [issue_category |-> "Authentication",
               keywords |-> <<"login", "password", "incorrect", "urgent">>,
               sentiment |-> "frustrated"],
           extract_entities |->
              [product |-> "User Account", issue_type |-> "Authentication",
               urgency |-> "High",
               account_id |-> <<"user_", "hash % 10000", Get(payload, "email", "")>>],
           normalize_fields |->
              [email |-> <<"lower", Get(payload, "email", "")>>,
               priority |-> <<"upper", Get(payload, "priority", "")>>,
               timestamp |-> now],
           enrich_records |->
              [sla_response_time |-> "2 hours", historical_issues |-> 2,
               customer_tier |-> "Premium"],
           knowledge_base_search |->
              [relevant_articles |-> <<"Password Reset Guide",
                                       "Account Lockout Solutions">>],
           solution_evaluation |->
              [solutions |-> DemoSolutions, best_score |-> CannedBestScore],
           response_generation |->
              [response |-> "Dear " \o Get(payload, "customer_name", "Customer")
                              \o ", Ticket ID: " \o Get(payload, "ticket_id", "Unknown")]]
    IN  Get(responses, ability_name, [status |-> "simulated", ability |-> ability_name])

\* What an awaited _simulate_ability call may yield: the canned answer, for
\* solution_evaluation any best_score a provider may report (or none), or
\* an exception.
DemoOutcomes(ability_name, server, payload, now) ==
    LET answers ==
          IF ability_name = "solution_evaluation"
          THEN {[solutions |-> DemoSolutions, best_score |-> b] : b \in Scores}
                 \cup {[solutions |-> DemoSolutions]}
          ELSE {Demo_simulate_ability(ability_name, server, payload, now)}
    IN  {[raises |-> FALSE, response |-> r, text |-> ""] : r \in answers}
          \cup {[raises |-> TRUE, response |-> EmptyDict, text |-> t] : t \in ServerErrors}

\* the calls a stage of process_ticket awaits, in program order
demo_abilities(n) ==
    CASE n = "understand" -> << Ability("parse_request_text", "COMMON"),
                                Ability("extract_entities", "ATLAS") >>
      [] n = "prepare"    -> << Ability("normalize_fields", "COMMON"),
                                Ability("enrich_records", "ATLAS"),
                                Ability("add_flags_calculations", "COMMON") >>
      [] n = "retrieve"   -> << Ability("knowledge_base_search", "ATLAS") >>
      [] n = "decide"     -> << Ability("solution_evaluation", "COMMON") >>
      [] n = "create"     -> << Ability("response_generation", "COMMON") >>
      [] OTHER            -> << >>

\* one outcome per awaited call of a stage; the i-th call reads the clock
\* after the stage log and the calls before it did
DemoEnv(abilities, payload, start) ==
    LET at(i) == DemoOutcomes(abilities[i].name, abilities[i].server, payload, start + i)
    IN  {env \in [DOMAIN abilities -> UNION {at(i) : i \in DOMAIN abilities}] :
            \A i \in DOMAIN abilities : env[i] \in at(i)}

\* One stage of the try block: the stage log is created, the calls are
\* awaited (when one raises, the stage has changed nothing and its log is
\* dropped), then the locals are updated, the ability names are added to
\* the log and the completed log is handed back for stage_logs.append.
DemoStage(before, after, stage_name, stage_id, names, env) ==
    LET start == before.clock IN
    IF \E i \in DOMAIN env : env[i].raises
    THEN LET i == CHOOSE i \in DOMAIN env :
                    env[i].raises /\ \A k \in DOMAIN env : env[k].raises => i <= k
         IN  [state |-> [before EXCEPT !.clock = start + 1 + i],
              log |-> None, exc |-> Some(env[i].text)]
    ELSE LET end == start + 1 + Len(env) IN
         [state |-> [after EXCEPT !.clock = end + 1],
          log |-> Some(Demo_complete_stage(
                     [DemoStageLog(stage_name, stage_id, start) EXCEPT
                         !.abilities_executed = names],
                     TRUE, end)),
          exc |-> None]

\* the locals of process_ticket before the try
DemoState(input_payload) ==
    [input_payload |-> input_payload,
     extracted_entities |-> EmptyDict,
     knowledge_results |-> <<>>,
     confidence_score |-> 0,
     escalation_needed |-> FALSE,
     escalation_reason |-> None,
     generated_response |-> "",
     ticket_status |-> StatusPENDING,
     clarification_needed |-> FALSE,
     clock |-> 0]

\* the stage of working_demo's process_ticket at position n, from locals s
demo_stage(n, s, env) ==
    CASE n = "intake" ->
           DemoStage(s, s, "INTAKE", 1, <<"accept_payload">>, env)
      [] n = "understand" ->
           DemoStage(s,
               [s EXCEPT !.extracted_entities =
                   Update(Update(@, env[1].response), env[2].response)],
               "UNDERSTAND", 2, <<"parse_request_text", "extract_entities">>, env)
      [] n = "prepare" ->
           DemoStage(s, s, "PREPARE", 3,
               <<"normalize_fields", "enrich_records", "add_flags_calculations">>, env)
      [] n = "ask" ->
           DemoStage(s,
               [s EXCEPT !.clarification_needed =
                   s.input_payload.priority \in {"low", "medium"}],
               "ASK", 4, <<"clarification_check">>, env)
      [] n = "wait" ->
           DemoStage(s, s, "WAIT", 5, <<"extract_answer", "store_answer">>, env)
      [] n = "retrieve" ->
           DemoStage(s,
               [s EXCEPT !.knowledge_results =
                   Get(env[1].response, "relevant_articles", <<>>)],
               "RETRIEVE", 6, <<"knowledge_base_search", "store_data">>, env)
      [] n = "decide" ->
           LET score == Get(env[1].response, "best_score", 0)
               s2 == [s EXCEPT !.confidence_score = score]
           IN  DemoStage(s,
                   IF score < EscalationThreshold
                   THEN [s2 EXCEPT !.escalation_needed = TRUE,
                                   !.escalation_reason =
                                       Some(SimpleLowConfidenceReason(score)),
                                   !.ticket_status = StatusESCALATED]
                   ELSE [s2 EXCEPT !.ticket_status = StatusRESOLVED],
                   "DECIDE", 7, <<"solution_evaluation", "escalation_decision">>, env)
      [] n = "update" ->
           DemoStage(s, s, "UPDATE", 8, <<"update_ticket", "close_ticket">>, env)
      [] n = "create" ->
           DemoStage(s,
               [s EXCEPT !.generated_response = Get(env[1].response, "response", "")],
               "CREATE", 9, <<"response_generation">>, env)
      [] n = "do" ->
           DemoStage(s, s, "DO", 10, <<"execute_api_calls", "trigger_notifications">>, env)
      [] n = "complete" ->
           DemoStage(s, s, "COMPLETE", 11, <<"output_payload">>, env)

\* a try block that runs UPDATE, CREATE and DO whatever DECIDE found
demo_next_NoBranch(n, s) ==
    CASE n = "intake"     -> "understand"
      [] n = "understand" -> "prepare"
      [] n = "prepare"    -> "ask"
      [] n = "ask"        -> IF s.clarification_needed THEN "wait" ELSE "retrieve"
      [] n = "wait"       -> "retrieve"
      [] n = "retrieve"   -> "decide"
      [] n = "decide"     -> "update"
      [] n = "update"     -> "create"
      [] n = "create"     -> "do"
      [] n = "do"         -> "complete"
      [] n = "complete"   -> END

\* the stage that follows stage n in the try block: "if
\* clarification_needed" guards WAIT, "if not escalation_needed" guards
\* UPDATE, CREATE and DO
demo_next(n, s) ==
    CASE n = "intake"     -> "understand"
      [] n = "understand" -> "prepare"
      [] n = "prepare"    -> "ask"
      [] n = "ask"        -> IF s.clarification_needed THEN "wait" ELSE "retrieve"
      [] n = "wait"       -> "retrieve"
      [] n = "retrieve"   -> "decide"
      [] n = "decide"     -> IF ~s.escalation_needed THEN "update" ELSE "complete"
      [] n = "update"     -> "create"
      [] n = "create"     -> "do"
      [] n = "do"         -> "complete"
      [] n = "complete"   -> END

\* working_demo.OutputPayload(...) at the end of process_ticket
DemoOutputPayload(s, logs) ==
    [ticket_id |-> s.input_payload.ticket_id,
     status |-> s.ticket_status,
     confidence_score |-> s.confidence_score,
     response |-> s.generated_response,
     escalation_reason |-> s.escalation_reason,
     stage_logs |-> logs,
     agent_name |-> "Langie",
     agent_version |-> "1.0.0"]

InitDemo ==
    /\ pc = "demo_call"
    /\ input \in SimpleInputs
    /\ node = "intake"
    /\ state = <<>>
    /\ output = None
    /\ raised = None
    /\ closed = [c \in Clients |-> 0]
    /\ stage_logs = <<>>

\* process_ticket up to the try: the prints read the payload's attributes,
\* then the locals are initialised
DemoCall ==
    /\ pc = "demo_call"
    /\ IF input.well_formed
       THEN /\ state' = DemoState(input)
            /\ pc' = "demo_try"
            /\ raised' = raised
       ELSE /\ state' = state
            /\ pc' = "demo_raised"
            /\ raised' = Some("AttributeError")
    /\ node' = "intake"
    /\ UNCHANGED <<input, output, closed, stage_logs>>

\* the try block runs the stage at position n
DemoRunStage(n) ==
    /\ pc = "demo_try"
    /\ node = n
    /\ \E env \in DemoEnv(demo_abilities(n), PayloadDict(state), state.clock) :
          LET r == demo_stage(n, state, env) IN
          /\ state' = r.state
          /\ IF r.exc = None
             THEN /\ stage_logs' = Append(stage_logs, r.log[1])
                  /\ node' = demo_next(n, r.state)
                  /\ pc' = IF demo_next(n, r.state) = END THEN "demo_output" ELSE pc
             ELSE /\ stage_logs' = stage_logs
                  /\ node' = node
                  /\ pc' = "demo_except"
    /\ UNCHANGED <<input, output, raised, closed>>

Demo_intake ==
    /\ node = "intake"
    /\ DemoRunStage("intake")

Demo_understand ==
    /\ node = "understand"
    /\ DemoRunStage("understand")

Demo_prepare ==
    /\ node = "prepare"
    /\ DemoRunStage("prepare")

Demo_ask ==
    /\ node = "ask"
    /\ DemoRunStage("ask")

Demo_wait ==
    /\ node = "wait"
    /\ DemoRunStage("wait")

Demo_retrieve ==
    /\ node = "retrieve"
    /\ DemoRunStage("retrieve")

Demo_decide ==
    /\ node = "decide"
    /\ DemoRunStage("decide")

Demo_update ==
    /\ node = "update"
    /\ DemoRunStage("update")

Demo_create ==
    /\ node = "create"
    /\ DemoRunStage("create")

Demo_do ==
    /\ node = "do"
    /\ DemoRunStage("do")

Demo_complete ==
    /\ node = "complete"
    /\ DemoRunStage("complete")

\* except Exception: ticket_status = Status.PENDING
DemoExcept ==
    /\ pc = "demo_except"
    /\ state' = [state EXCEPT !.ticket_status = StatusPENDING]
    /\ pc' = "demo_output"
    /\ UNCHANGED <<input, node, output, raised, closed, stage_logs>>

\* after the try statement: the OutputPayload is built and returned
DemoBuildOutput ==
    /\ pc = "demo_output"
    /\ output' = Some(DemoOutputPayload(state, stage_logs))
    /\ pc' = "demo_returned"
    /\ UNCHANGED <<input, node, state, raised, closed, stage_logs>>

DemoStages ==
    \/ Demo_intake \/ Demo_understand \/ Demo_prepare \/ Demo_ask
    \/ Demo_wait \/ Demo_retrieve \/ Demo_decide \/ Demo_update
    \/ Demo_create \/ Demo_do \/ Demo_complete

NextDemo == DemoCall \/ DemoStages \/ DemoExcept \/ DemoBuildOutput

\* one call of process_ticket on either of the two simplified agents
InitSimplified == InitSimple \/ InitDemo

NextSimplified == NextSimple \/ NextDemo

SpecSimplified == InitSimplified /\ [][NextSimplified]_vars

\* the try block of a simplified agent was left without an exception
NoStageRaised ==
    /\ pc \in {"simple_output", "simple_returned", "demo_output", "demo_returned"}
    /\ HasStage(stage_logs, 11)

\* the last n stage ids of the logs
LastIds(logs, n) ==
    IF Len(logs) < n THEN <<>>
    ELSE SubSeq(StageIds(logs), Len(logs) - n + 1, Len(logs))

\* C34: the numeric threshold governs in both simplified implementations
\* (SimpleLangGraphAgent and working_demo): when no stage raised, a DECIDE
\* confidence below 90 has set the escalation reason and the status
\* ESCALATED, UPDATE, CREATE and DO were skipped and COMPLETE is the last
\* stage log, right after DECIDE; a confidence of 90 or more ran UPDATE,
\* CREATE, DO and then COMPLETE.  The returned payload shows the same.
C34_ThresholdGovernsSimplified ==
    NoStageRaised =>
        /\ state.confidence_score < EscalationThreshold =>
              /\ NonEmpty(state.escalation_reason)
              /\ state.ticket_status = StatusESCALATED
              /\ \A k \in {8, 9, 10} : ~HasStage(stage_logs, k)
              /\ LastIds(stage_logs, 2) = <<7, 11>>
        /\ state.confidence_score >= EscalationThreshold =>
              /\ LastIds(stage_logs, 5) = <<7, 8, 9, 10, 11>>
              /\ state.ticket_status # StatusESCALATED
        /\ output # None =>
              /\ output[1].stage_logs = stage_logs
              /\ output[1].status = state.ticket_status
              /\ output[1].escalation_reason = state.escalation_reason
              /\ output[1].confidence_score = state.confidence_score

\* working_demo returned an escalated ticket whose last stage log is COMPLETE
C34_Witness ==
    /\ pc = "demo_returned"
    /\ output[1].status = StatusESCALATED
    /\ output[1].confidence_score = EscalationThreshold - 1
    /\ LastIds(output[1].stage_logs, 2) = <<7, 11>>

\* C35: in every state of a LangGraphCustomerSupportAgent run and in the
\* returned OutputPayload a non-empty escalation_reason implies
\* escalation_needed = true: a run that is not escalated carries no
\* escalation reason.
C35_ReasonImpliesEscalation ==
    (pc # "call" /\ input.well_formed) =>
        /\ NonEmpty(state.escalation_reason) => state.escalation_needed
        /\ (output # None /\ NonEmpty(output[1].escalation_reason)) =>
              output[1].final_payload.escalation_needed

\* C36: no ability is executed through a provider client after that client
\* was closed.  For every sequence or interleaving of two process_ticket
\* calls on one agent: whenever a stage of a run executes remote abilities,
\* the client of each of them has not been closed by MCPManager.close.
C36_NoCallAfterClose ==
    [][\A r \in Runs :
          (pc[r] = "workflow" /\ state'[r] # state[r]) =>
              LET xs == LastLog(state'[r]).abilities_executed IN
              \A i \in DOMAIN xs :
                  xs[i].server_used \in Clients => closed[xs[i].server_used] = 0]_vars

\* C37: automated resolution acts only on a confident decision: in every
\* reachable state of a LangGraphCustomerSupportAgent run in which
\* generated_response, api_calls_executed or notifications_sent has been
\* set (CREATE or DO has run), confidence_score >= 90 and the DECIDE stage
\* log has success = true.
C37_ResolutionNeedsConfidentDecision ==
    (pc # "call" /\ input.well_formed
        /\ (\/ state.generated_response # None
            \/ state.api_calls_executed # <<>>
            \/ state.notifications_sent # <<>>)) =>
        /\ state.confidence_score >= EscalationThreshold
        /\ HasStage(state.stage_logs, 7)
        /\ LogOf(state.stage_logs, 7).success

\* C38: in stage_08_update the resulting ticket_status and the success flag
\* of the stage depend only on confidence_score and escalation_needed: two
\* runs of UPDATE from the same state that differ only in the outcomes
\* (SUCCESS or ERROR) of update_ticket and close_ticket end with the same
\* ticket_status, which is RESOLVED exactly when the confidence is at least
\* 90 and no escalation is needed, and both with success = true.
C38_UpdateIgnoresOutcomes ==
    (pc = "workflow" /\ node = "update") =>
        \A e1, e2 \in AbilityEnv(abilities_08, PayloadDict(state)) :
            LET r1 == stage_08_update(state, e1)
                r2 == stage_08_update(state, e2)
            IN  /\ r1.state.ticket_status = r2.state.ticket_status
                /\ LastLog(r1.state).success /\ LastLog(r2.state).success
                /\ LastLog(r1.state).error = None
                /\ r1.escaped = None
                /\ r1.state.ticket_status =
                      IF state.confidence_score >= EscalationThreshold
                           /\ ~state.escalation_needed
                      THEN StatusRESOLVED ELSE state.ticket_status
                /\ NextNode("update", r1.state) = NextNode("update", r2.state)

\* UPDATE has just run, update_ticket and close_ticket both ended in an
\* ERROR, and the stage succeeded and resolved the ticket
C38_Witness ==
    /\ pc = "workflow"
    /\ JustRan(8)
    /\ \A i \in {1, 2} : LastLog(state).abilities_executed[i].status = "error"
    /\ LastLog(state).success
    /\ state.ticket_status = StatusRESOLVED

\* the fields of the InputPayload the caller handed to process_ticket
CallerPayload == [k \in (DOMAIN input) \ {"well_formed"} |-> input[k]]

\* the abilities whose answer the model lets the provider choose
ChosenAnswers == {"solution_evaluation", "escalation_decision"}

\* C39: every remote ability call of a LangGraphCustomerSupportAgent run
\* receives the same payload, the fields of the caller's InputPayload: no
\* stage modifies input_payload, and no result of an earlier ability or
\* stage is part of the payload of a later call (every answer that echoes
\* payload fields - the normalized fields, the response text, the
\* notification recipients - echoes the caller's values).
C39_PayloadIsCallerInput ==
    (pc # "call" /\ input.well_formed) =>
        /\ state.input_payload = input
        /\ PayloadDict(state) = CallerPayload
        /\ \A n \in DOMAIN state.stage_logs :
              LET xs == state.stage_logs[n].abilities_executed IN
              \A i \in DOMAIN xs :
                  (xs[i].status = "success" /\ xs[i].ability_name \notin ChosenAnswers) =>
                      xs[i].result =
                          Some(simulate_server_call(xs[i].server_used,
                                                    xs[i].ability_name, CallerPayload))

\* a returned run whose CREATE and DO stages got answers that echo the
\* caller's name and e-mail address
C39_Witness ==
    /\ Returned
    /\ ExecsWith(state.stage_logs, 9, "response_generation", "success") # {}
    /\ ExecsWith(state.stage_logs, 10, "trigger_notifications", "success") # {}
    /\ state.generated_response =
          Some(common_ability_response("response_generation", CallerPayload).response)

\* the try block of SimpleLangGraphAgent.process_ticket was left by an
\* exception: the position is still that of the raising stage
SimpleStageRaised ==
    pc \in {"simple_output", "simple_returned"} /\ node # END

\* C40: SimpleLangGraphAgent.process_ticket, called with an InputPayload,
\* always returns an OutputPayload (it never raises and never stops before
\* the return), and every StageLog of its stage_logs has end_time set and
\* success = true, also in runs where a stage raised: then the raising
\* stage and all later stages are absent from stage_logs and the returned
\* status is PENDING, whatever status had been reached before.
C40_SimpleAlwaysReturns ==
    (input.well_formed /\ pc \in {"simple_call", "simple_try", "simple_except",
                                  "simple_output", "simple_returned",
                                  "simple_raised"}) =>
        /\ pc # "simple_raised"
        /\ pc # "simple_returned" => ENABLED NextSimple
        /\ \A n \in DOMAIN stage_logs :
              /\ stage_logs[n].end_time # None
              /\ stage_logs[n].success
        /\ SimpleStageRaised =>
              /\ state.ticket_status = StatusPENDING
              /\ \A n \in DOMAIN stage_logs :
                    stage_logs[n].stage_id < StageHeader(node).stage_id
        /\ pc = "simple_returned" =>
              /\ output # None
              /\ output[1].stage_logs = stage_logs
              /\ output[1].status = state.ticket_status

\* CREATE raised after DECIDE had resolved the ticket with a confident
\* score; the run returned PENDING with the logs of the stages before CREATE
C40_Witness ==
    /\ pc = "simple_returned"
    /\ node = "create"
    /\ output[1].confidence_score >= EscalationThreshold
    /\ output[1].status = StatusPENDING
    /\ StageIds(output[1].stage_logs) = <<1, 2, 3, 4, 6, 7, 8>>

====
